---- MODULE Spec2Model ----
(***************************************************************************)
(* Movi transport assistant: the conversation orchestration engine         *)
(* (backend/agent.py), the session store and chat endpoint                 *)
(* (backend/main.py) and the data service it calls (backend/db_utils.py).  *)
(***************************************************************************)
EXTENDS Integers, Sequences, FiniteSets, TLC

(***************************************************************************)
(* Bounds of the model                                                     *)
(***************************************************************************)
\* number of chat requests that are ever submitted
MaxReqs == 3
\* the clock runs over MaxEpochs session timeouts
MaxEpochs == 1
\* the number of turns of the runs with the wider inputs
MaxTurns == 2

(***************************************************************************)
(* Program constants                                                       *)
(***************************************************************************)
SESSION_TIMEOUT == 3600

\* last_access of a session dict that has no such key (state.get -> None)
NoTime == -1

Reqs == 1..MaxReqs

\* instants at which datetime.now() is sampled: the start, and around each
\* multiple of the timeout (age = timeout exactly, age = timeout + 1)
Times == {0} \cup {k * SESSION_TIMEOUT + d : k \in 1..MaxEpochs, d \in {0, 1}}

Pages == {"busDashboard", "manageRoute"}

\* Optional[...] values: None is the empty sequence, a value x is <<x>>
None == <<>>
Some(x) == <<x>>

Last(s) == s[Len(s)]

(***************************************************************************)
(* Text: a str is a sequence of one-character strings                      *)
(***************************************************************************)
LowerChar(c) ==
  CASE c = "Y" -> "y"
    [] c = "E" -> "e"
    [] c = "S" -> "s"
    [] c = "N" -> "n"
    [] c = "O" -> "o"
    [] OTHER -> c

\* str.lower() that keeps the case
Lower_keeping_case(s) == s

\* str.lower()
Lower(s) == [i \in 1..Len(s) |-> LowerChar(s[i])]

IsSpace(c) == c \in {" ", "\n", "\t"}

RECURSIVE LStrip(_)
LStrip(s) == IF s # <<>> /\ IsSpace(Head(s)) THEN LStrip(Tail(s)) ELSE s

RECURSIVE RStrip(_)
RStrip(s) ==
  IF s # <<>> /\ IsSpace(s[Len(s)]) THEN RStrip(SubSeq(s, 1, Len(s) - 1)) ELSE s

\* str.strip()
Strip(s) == RStrip(LStrip(s))

\* the vocabulary of handle_confirmation
AcceptWords ==
  { <<"y","e","s">>, <<"y">>, <<"c","o","n","f","i","r","m">>,
    <<"p","r","o","c","e","e","d">>, <<"o","k">>, <<"s","u","r","e">> }

RejectWords ==
  { <<"n","o">>, <<"n">>, <<"c","a","n","c","e","l">>, <<"a","b","o","r","t">>,
    <<"s","t","o","p">>, <<"n","o","p","e">> }

(***************************************************************************)
(* Messages                                                                *)
(***************************************************************************)
\* the text of a message: a tagged value for generated texts (tag, the
\* subject it names, the number it quotes), the characters for user texts
Content(tag, subject, num) ==
  [tag |-> tag, subject |-> subject, num |-> num, text |-> <<>>]

UserContent(chars) ==
  [tag |-> "user", subject |-> "", num |-> 0, text |-> chars]

HumanMessage(chars) ==
  [role |-> "human", content |-> UserContent(chars), tool_calls |-> <<>>,
   tool_call_id |-> 0]

AIMessage(content, calls) ==
  [role |-> "ai", content |-> content, tool_calls |-> calls, tool_call_id |-> 0]

\* a ToolMessage that does not carry the id of the invocation it answers
ToolMessage_without_id(content, id) ==
  [role |-> "tool", content |-> content, tool_calls |-> <<>>, tool_call_id |-> 0]

ToolMessage(content, id) ==
  [role |-> "tool", content |-> content, tool_calls |-> <<>>, tool_call_id |-> id]

SystemMessage(content) ==
  [role |-> "system", content |-> content, tool_calls |-> <<>>, tool_call_id |-> 0]

\* a proposed tool invocation: action name, the name argument, correlation id
ToolCall(name, arg, id) == [name |-> name, arg |-> arg, id |-> id]

(***************************************************************************)
(* The data service (db_utils.py over the schema of database.py)           *)
(***************************************************************************)
\* the rows seed.py creates that the model keeps
BulkTrip == "Bulk - 00:01"
PathPathTrip == "Path Path - 00:02"
PathExtraTrip == "Path-1 Extra - 07:15"
GhostTrip == "No Such Trip"
Route1 == "Path-1 - 07:00"
Route2 == "Path-2 - 08:30"
Route3 == "South-Loop - 18:00"
GhostRoute == "No Such Route"

\* a deployment column that is NULL
Null == ""

\* trips: display_name -> row; deployments: trip -> row; routes: name -> status
SeedDb ==
  [trips |-> (BulkTrip :> [route |-> Route1, pct |-> 25]) @@
             (PathPathTrip :> [route |-> Route2, pct |-> 0]) @@
             (PathExtraTrip :> [route |-> Route1, pct |-> 0]),
   deployments |-> (BulkTrip :> [vehicle |-> "KA-01-AB-1234", driver |-> "Amit Kumar"]) @@
                   (PathPathTrip :> [vehicle |-> Null, driver |-> Null]) @@
                   (PathExtraTrip :> [vehicle |-> Null, driver |-> Null]),
   routes |-> (Route1 :> "active") @@ (Route2 :> "active") @@ (Route3 :> "deactivated")]

\* remove key k from the function f
Without(f, k) == [x \in DOMAIN f \ {k} |-> f[x]]

\* check_trip_has_bookings with >= in place of >
check_trip_has_bookings_ge(d, trip_name) ==
  IF trip_name \notin DOMAIN d.trips
    THEN [has_bookings |-> FALSE, percentage |-> 0]
    ELSE [has_bookings |-> d.trips[trip_name].pct >= 0,
          percentage |-> d.trips[trip_name].pct]

check_trip_has_bookings(d, trip_name) ==
  IF trip_name \notin DOMAIN d.trips
    THEN [has_bookings |-> FALSE, percentage |-> 0]
    ELSE [has_bookings |-> d.trips[trip_name].pct > 0,
          percentage |-> d.trips[trip_name].pct]

\* check_route_has_active_trips that counts a missing route as one with trips
check_route_has_active_trips_strict(d, route_name) ==
  IF route_name \notin DOMAIN d.routes
    THEN [has_trips |-> TRUE, count |-> 0]
    ELSE LET trips == {t \in DOMAIN d.trips : d.trips[t].route = route_name}
         IN  [has_trips |-> Cardinality(trips) > 0, count |-> Cardinality(trips)]

check_route_has_active_trips(d, route_name) ==
  IF route_name \notin DOMAIN d.routes
    THEN [has_trips |-> FALSE, count |-> 0]
    ELSE LET trips == {t \in DOMAIN d.trips : d.trips[t].route = route_name}
         IN  [has_trips |-> Cardinality(trips) > 0, count |-> Cardinality(trips)]

query_trip_status(d, trip_name) ==
  IF trip_name \notin DOMAIN d.trips
    THEN [res |-> Content("Trip not found.", trip_name, 0), db |-> d]
    ELSE [res |-> Content("Trip: Status, Booking", trip_name, d.trips[trip_name].pct),
          db |-> d]

\* delete_daily_trip that deletes the trip row only
delete_daily_trip_keeping_deployment(d, trip_name) ==
  IF trip_name \notin DOMAIN d.trips
    THEN [res |-> Content("X Trip not found.", trip_name, 0), db |-> d]
    ELSE [res |-> Content("OK Deleted daily trip", trip_name, d.trips[trip_name].pct),
          db |-> [d EXCEPT !.trips = Without(@, trip_name)]]

delete_daily_trip(d, trip_name) ==
  IF trip_name \notin DOMAIN d.trips
    THEN [res |-> Content("X Trip not found.", trip_name, 0), db |-> d]
    ELSE [res |-> Content("OK Deleted daily trip", trip_name, d.trips[trip_name].pct),
          db |-> [d EXCEPT !.trips = Without(@, trip_name),
                           !.deployments = Without(@, trip_name)]]

delete_vehicle_from_trip(d, trip_name) ==
  IF trip_name \notin DOMAIN d.trips
    THEN [res |-> Content("X Trip not found.", trip_name, 0), db |-> d]
    ELSE IF trip_name \notin DOMAIN d.deployments
            \/ d.deployments[trip_name].vehicle = Null
      THEN [res |-> Content("No vehicle assigned to trip", trip_name, 0), db |-> d]
      ELSE [res |-> Content("OK Removed vehicle from trip", trip_name, 0),
            db |-> [d EXCEPT !.deployments[trip_name].vehicle = Null]]

deactivate_route(d, route_name) ==
  IF route_name \notin DOMAIN d.routes
    THEN [res |-> Content("X Route not found.", route_name, 0), db |-> d]
    ELSE IF d.routes[route_name] = "deactivated"
      THEN [res |-> Content("Route is already deactivated.", route_name, 0), db |-> d]
      ELSE [res |-> Content("OK Route has been deactivated", route_name, 0),
            db |-> [d EXCEPT !.routes[route_name] = "deactivated"]]

\* what can go wrong in the database while an operation runs: nothing, the
\* first commit of the operation fails, its second commit fails
Faults == { "none", "first_commit", "second_commit" }

\* create_daily_trip: the trip row is committed, then the deployment row
create_daily_trip(d, route_name, display_name, booking_percentage, fault) ==
  IF route_name \notin DOMAIN d.routes
    THEN [res |-> Content("X Route not found.", route_name, 0), db |-> d]
  ELSE IF display_name \in DOMAIN d.trips
    THEN [res |-> Content("X Trip already exists.", display_name, 0), db |-> d]
  ELSE IF ~(0 <= booking_percentage /\ booking_percentage <= 100)
    THEN [res |-> Content("X Booking percentage must be between 0 and 100.", "", 0), db |-> d]
  ELSE LET with_trip ==
             [d EXCEPT !.trips = (display_name :> [route |-> route_name,
                                                   pct |-> booking_percentage]) @@ @]
           with_deployment ==
             [with_trip EXCEPT !.deployments =
                (display_name :> [vehicle |-> Null, driver |-> Null]) @@ @]
       IN  CASE fault = "first_commit" ->
                  \* rollback of the session: the trip row was not committed
                  [res |-> Content("X Error creating daily trip", display_name, 0), db |-> d]
             [] fault = "second_commit" ->
                  \* rollback of the session: the trip row is committed already
                  [res |-> Content("X Error creating daily trip", display_name, 0),
                   db |-> with_trip]
             [] OTHER ->
                  [res |-> Content("OK Created daily trip", display_name, 0),
                   db |-> with_deployment]

\* the rows of the vehicles and drivers tables, which no operation changes
SeedVehicles == { "KA-01-AB-1234" }
SeedDrivers == { "Amit Kumar" }

\* create_deployment: the deployment row of the trip is updated, or created
\* when the trip has none
create_deployment(d, trip_name, vehicle_license, driver_name, fault) ==
  IF trip_name \notin DOMAIN d.trips
    THEN [res |-> Content("X Trip not found.", trip_name, 0), db |-> d]
  ELSE IF vehicle_license \notin SeedVehicles
    THEN [res |-> Content("X Vehicle not found.", vehicle_license, 0), db |-> d]
  ELSE IF driver_name \notin SeedDrivers
    THEN [res |-> Content("X Driver not found.", driver_name, 0), db |-> d]
  ELSE IF fault = "first_commit"
    THEN [res |-> Content("X Error creating deployment", trip_name, 0), db |-> d]
  ELSE [res |-> Content(IF trip_name \in DOMAIN d.deployments
                          THEN "OK Updated deployment" ELSE "OK Created deployment",
                        trip_name, 0),
        db |-> [d EXCEPT !.deployments =
                  (trip_name :> [vehicle |-> vehicle_license, driver |-> driver_name]) @@ @]]

\* delete_daily_trip when its one commit may fail
delete_daily_trip_with(d, trip_name, fault) ==
  IF trip_name \in DOMAIN d.trips /\ fault = "first_commit"
    THEN [res |-> Content("X Error deleting daily trip", trip_name, 0), db |-> d]
    ELSE delete_daily_trip(d, trip_name)

(***************************************************************************)
(* The tool registry (tools.py)                                            *)
(***************************************************************************)
get_all_tools ==
  { "get_trip_status", "get_unassigned_vehicles", "list_stops_for_path",
    "list_routes_for_path", "create_daily_trip", "assign_vehicle_and_driver",
    "delete_daily_trip", "remove_vehicle_from_trip", "create_new_stop",
    "create_new_path", "create_new_route", "deactivate_route", "list_all_routes",
    "get_all_drivers", "get_trip_bookings", "get_vehicle_details" }

\* the argument mapping of an invocation that lacks the required name
MissingArg == "<missing>"

\* the tools of the model that require a trip or route name
NamedTools ==
  { "get_trip_status", "delete_daily_trip", "remove_vehicle_from_trip", "deactivate_route" }

\* tool_map[tool_name].invoke(tool_args): the registered operation on the data
\* service, or the exception the argument validation of the tool raises; the
\* tools the model's inputs never propose only read
tool_invoke(d, name, arg) ==
  IF name \in NamedTools /\ arg = MissingArg
    THEN [res |-> Content("validation error: field required", name, 0), db |-> d,
          raised |-> TRUE]
    ELSE LET r == CASE name = "get_trip_status" -> query_trip_status(d, arg)
                    [] name = "delete_daily_trip" -> delete_daily_trip(d, arg)
                    [] name = "remove_vehicle_from_trip" -> delete_vehicle_from_trip(d, arg)
                    [] name = "deactivate_route" -> deactivate_route(d, arg)
                    [] OTHER -> [res |-> Content("read-only result", arg, 0), db |-> d]
         IN  [res |-> r.res, db |-> r.db, raised |-> FALSE]

\* one entry of the record of calls made on the data service in a turn
DsCall(kind, op, arg) == [kind |-> kind, op |-> op, arg |-> arg]

format_tool_output(tool_name, raw_result) ==
  IF tool_name = "get_trip_status" /\ raw_result.tag = "Trip: Status, Booking"
    THEN Content("The trip is currently", raw_result.subject, raw_result.num)
    ELSE raw_result

(***************************************************************************)
(* The nodes of the orchestration graph (agent.py).  A node takes the      *)
(* AgentState s and the data store d and yields the state after its update *)
(* is merged (messages through add_messages, i.e. appended), the data      *)
(* store after it, and the calls it made on the data service.              *)
(***************************************************************************)
NoImage == "None"

\* the outcome of one call of the reasoning service: it raised, or it
\* answered with text and the tool invocations it proposes
LlmError == [fail |-> TRUE, tool_calls |-> <<>>, silent |-> FALSE]
LlmReply(calls) == [fail |-> FALSE, tool_calls |-> calls, silent |-> FALSE]
\* an answer with neither text nor tool invocations
LlmSilent == [fail |-> FALSE, tool_calls |-> <<>>, silent |-> TRUE]

\* call_model whose update replaces the transcript by the answer
call_model_replacing(s, out) ==
  [s EXCEPT !.messages =
     << IF out.fail
          THEN AIMessage(Content("I ran into an issue reaching my language model", "", 0), <<>>)
          ELSE AIMessage(Content("model reply", "", 0), out.tool_calls) >>]

\* NODE 1: yields the state after the node (it makes no data-service call)
call_model(s, out) ==
  LET vision == IF s.image_data # NoImage
                  THEN << SystemMessage(Content("Image Analysis", "", 0)) >>
                  ELSE << >>
      response == IF out.fail
                    THEN AIMessage(Content("I ran into an issue reaching my language model", "", 0), <<>>)
                    ELSE IF out.silent
                      THEN AIMessage(Content("", "", 0), <<>>)
                      ELSE AIMessage(Content("model reply", "", 0), out.tool_calls)
  IN  \* messages.append(SystemMessage) acts on the list of the state itself;
      \* state["image_data"] = None is not part of the returned update
      [s EXCEPT !.messages = @ \o vision \o << response >>]

\* the loop of call_tool over last_message.tool_calls, from position i on
RECURSIVE dispatch(_, _, _)
dispatch(calls, i, d) ==
  IF i > Len(calls)
    THEN [msgs |-> << >>, d |-> d, calls |-> << >>]
    ELSE LET c == calls[i] IN
         IF c.name \in get_all_tools
           THEN LET r == tool_invoke(d, c.name, c.arg)
                    rest == dispatch(calls, i + 1, r.db)
                    content == IF r.raised
                                 THEN [r.res EXCEPT !.tag = "Error: " \o @]
                                 ELSE format_tool_output(c.name, r.res)
                IN  [msgs |-> << ToolMessage(content, c.id) >> \o rest.msgs,
                     d |-> rest.d,
                     calls |-> << DsCall("tool", c.name, c.arg) >> \o rest.calls]
           ELSE LET rest == dispatch(calls, i + 1, d)
                IN  [msgs |-> << ToolMessage(Content("Error: Tool not found", c.name, 0), c.id) >>
                                \o rest.msgs,
                     d |-> rest.d,
                     calls |-> rest.calls]

\* call_tool that gives up after the first invocation
call_tool_first_only(s, d) ==
  IF s.messages = << >> \/ Last(s.messages).tool_calls = << >>
    THEN [s |-> s, d |-> d, calls |-> << >>]
    ELSE LET r == dispatch(SubSeq(Last(s.messages).tool_calls, 1, 1), 1, d)
         IN  [s |-> [s EXCEPT !.messages = @ \o r.msgs], d |-> r.d, calls |-> r.calls]

\* NODE 2
call_tool(s, d) ==
  IF s.messages = << >> \/ Last(s.messages).tool_calls = << >>
    THEN [s |-> s, d |-> d, calls |-> << >>]
    ELSE LET r == dispatch(Last(s.messages).tool_calls, 1, d)
         IN  [s |-> [s EXCEPT !.messages = @ \o r.msgs], d |-> r.d, calls |-> r.calls]

\* paused that stores the last proposed invocation
paused_storing_last(s, call, type, subject, impact, warning) ==
  [s EXCEPT !.confirmation_pending = TRUE,
            !.action_to_confirm = Some(Last(Last(s.messages).tool_calls)),
            !.consequence_info = Some([type |-> type, name |-> subject, impact |-> impact]),
            !.messages = @ \o << ToolMessage(Content("Action paused pending confirmation. No changes made yet.", "", 0), call.id),
                                 AIMessage(Content(warning, subject, impact), <<>>) >>]

\* paused without "confirmation_pending": True
paused_without_flag(s, call, type, subject, impact, warning) ==
  [s EXCEPT !.action_to_confirm = Some(call),
            !.consequence_info = Some([type |-> type, name |-> subject, impact |-> impact]),
            !.messages = @ \o << ToolMessage(Content("Action paused pending confirmation. No changes made yet.", "", 0), call.id),
                                 AIMessage(Content(warning, subject, impact), <<>>) >>]

\* the update check_consequences returns when it found a consequence
paused(s, call, type, subject, impact, warning) ==
  [s EXCEPT !.confirmation_pending = TRUE,
            !.action_to_confirm = Some(call),
            !.consequence_info = Some([type |-> type, name |-> subject, impact |-> impact]),
            !.messages = @ \o << ToolMessage(Content("Action paused pending confirmation. No changes made yet.", "", 0), call.id),
                                 AIMessage(Content(warning, subject, impact), <<>>) >>]

\* a query session of the node that deletes the rows it has read
query_session_purging(d, tool_name, name) ==
  IF tool_name = "deactivate_route"
    THEN [d EXCEPT !.routes = Without(@, name)]
    ELSE [d EXCEPT !.trips = Without(@, name)]

\* the data store after the query session of the node for the action
\* tool_name on name: the session is closed, nothing is committed
query_session(d, tool_name, name) == d

\* args.get("trip_name", ""), args.get("route_name", "")
arg_get(call) == IF call.arg = MissingArg THEN "" ELSE call.arg

\* the node that inspects the last of the proposed invocations
inspected_last(tool_calls) == tool_calls[Len(tool_calls)]

\* last_message.tool_calls[0]: the invocation the node inspects
inspected(tool_calls) == tool_calls[1]

\* NODE 3: the state after the node, the data store after it, and its queries
check_consequences(s, d) ==
  IF s.messages = << >> \/ Last(s.messages).tool_calls = << >>
    THEN [s |-> [s EXCEPT !.confirmation_pending = FALSE], d |-> d, calls |-> << >>]
    ELSE
      LET last_tool_call == inspected(Last(s.messages).tool_calls)
          tool_name == last_tool_call.name
          name == arg_get(last_tool_call)
          status == check_trip_has_bookings(d, name)
          trip_info == check_route_has_active_trips(d, name)
          safe == [s EXCEPT !.confirmation_pending = FALSE]
      IN  CASE tool_name = "remove_vehicle_from_trip" ->
                 [s |-> IF status.has_bookings
                          THEN paused(s, last_tool_call, "vehicle_removal", name, status.percentage,
                                      "CONSEQUENCE WARNING: I can remove the vehicle; % booked; Do you want to proceed? (yes/no)")
                          ELSE safe,
                  d |-> query_session(d, tool_name, name),
                  calls |-> << DsCall("query", "check_trip_has_bookings", name) >>]
            [] tool_name = "delete_daily_trip" ->
                 [s |-> IF status.has_bookings
                          THEN paused(s, last_tool_call, "trip_deletion", name, status.percentage,
                                      "CONSEQUENCE WARNING: I can delete the trip; % booked; Do you want to proceed? (yes/no)")
                          ELSE safe,
                  d |-> query_session(d, tool_name, name),
                  calls |-> << DsCall("query", "check_trip_has_bookings", name) >>]
            [] tool_name = "deactivate_route" ->
                 [s |-> IF trip_info.has_trips
                          THEN paused(s, last_tool_call, "route_deactivation", name, trip_info.count,
                                      "CONSEQUENCE WARNING: I can deactivate route; active trip(s); Do you want to proceed? (yes/no)")
                          ELSE safe,
                  d |-> query_session(d, tool_name, name),
                  calls |-> << DsCall("query", "check_route_has_active_trips", name) >>]
            [] OTHER -> [s |-> safe, d |-> d, calls |-> << >>]

\* user_response_of without .strip()
user_response_unstripped(text) == Lower(text)

\* user_response = last_message.content.lower().strip()
user_response_of(text) == Strip(Lower(text))

\* confirmation_branch with the else branch cancelling
confirmation_branch_else_reject(user_response) ==
  IF user_response \in AcceptWords THEN "accept" ELSE "reject"

\* the branch handle_confirmation takes on the normalised reply
confirmation_branch(user_response) ==
  IF user_response \in AcceptWords THEN "accept"
  ELSE IF user_response \in RejectWords THEN "reject"
  ELSE "unclear"

\* resolved without "consequence_info": None
resolved_keeps_info(s) ==
  [s EXCEPT !.confirmation_pending = FALSE,
            !.action_to_confirm = None]

\* resolved without "action_to_confirm": None
resolved_keeps_action(s) ==
  [s EXCEPT !.confirmation_pending = FALSE,
            !.consequence_info = None]

\* the fields the accept and the reject branch return next to their messages
resolved(s) ==
  [s EXCEPT !.confirmation_pending = FALSE,
            !.action_to_confirm = None,
            !.consequence_info = None]

\* the accept branch that leaves the confirmation fields as they are
accepted_keeps_pending(s, added) == [s EXCEPT !.messages = @ \o added]

\* the update of the accept branch: its messages, and the fields cleared
accepted(s, added) == [resolved(s) EXCEPT !.messages = @ \o added]

\* the unclear branch that forgets the stored invocation
reasked_dropping_action(s) ==
  [s EXCEPT !.action_to_confirm = None,
            !.messages = @ \o
              << AIMessage(Content("I didn't understand your response. Please reply with yes or no", "", 0), <<>>) >>]

\* the unclear branch returns its message only
reasked(s) ==
  [s EXCEPT !.messages = @ \o
              << AIMessage(Content("I didn't understand your response. Please reply with yes or no", "", 0), <<>>) >>]

\* NODE 4
handle_confirmation(s, d) ==
  IF s.messages = << >> \/ s.action_to_confirm = None
    THEN [s |-> [s EXCEPT !.confirmation_pending = FALSE, !.action_to_confirm = None],
          d |-> d, calls |-> << >>]
    ELSE IF Last(s.messages).role # "human"
      THEN [s |-> s, d |-> d, calls |-> << >>]
      ELSE
        LET branch == confirmation_branch(user_response_of(Last(s.messages).content.text))
            action == s.action_to_confirm[1]
        IN  CASE branch = "accept" ->
                   IF action.name \in get_all_tools
                     THEN LET r == tool_invoke(d, action.name, action.arg)
                              added ==
                                IF r.raised
                                  THEN << ToolMessage([r.res EXCEPT !.tag = "Error: " \o @], action.id),
                                          AIMessage([r.res EXCEPT !.tag = "X Error executing action: " \o @], <<>>) >>
                                  ELSE << ToolMessage(r.res, action.id),
                                          AIMessage([r.res EXCEPT !.tag = "Action completed: " \o @], <<>>) >>
                          IN  [s |-> accepted(s, added),
                               d |-> r.db,
                               calls |-> << DsCall("tool", action.name, action.arg) >>]
                     ELSE [s |-> [resolved(s) EXCEPT !.messages = @ \o
                                    << ToolMessage(Content("Error: Tool not found", action.name, 0), action.id),
                                       AIMessage(Content("X Tool not found", action.name, 0), <<>>) >>],
                           d |-> d, calls |-> << >>]
              [] branch = "reject" ->
                   [s |-> [resolved(s) EXCEPT !.messages = @ \o
                             << AIMessage(Content("Action cancelled. The operation was not performed.", "", 0), <<>>) >>],
                    d |-> d, calls |-> << >>]
              [] OTHER -> [s |-> reasked(s), d |-> d, calls |-> << >>]

(***************************************************************************)
(* Routing functions and the compiled graph                                *)
(***************************************************************************)
\* should_continue_after_model without the test for tool calls
should_continue_after_model_always_check(s) == "check_consequences"

should_continue_after_model(s) ==
  IF Last(s.messages).tool_calls # << >> THEN "check_consequences" ELSE "end"

\* should_get_confirmation that always goes on to the tool executor
should_get_confirmation_always_tools(s) == "tools"

should_get_confirmation(s) ==
  IF s.confirmation_pending THEN "handle_confirmation" ELSE "tools"

\* start_router without the confirmation_pending test
start_router_always_model(s) == "call_model"

start_router(s) ==
  IF s.confirmation_pending /\ s.messages # << >> /\ Last(s.messages).role = "human"
    THEN "handle_confirmation"
    ELSE "call_model"

\* movi_agent.invoke(state): the final state, the data store after the run,
\* the nodes visited in order and the calls made on the data service
movi_agent_invoke(s, d, out) ==
  IF start_router(s) = "handle_confirmation"
    THEN LET h == handle_confirmation(s, d)
         IN  [s |-> h.s, d |-> h.d, nodes |-> << "handle_confirmation" >>, calls |-> h.calls]
    ELSE
      LET m == call_model(s, out) IN
      IF should_continue_after_model(m) = "end"
        THEN [s |-> m, d |-> d, nodes |-> << "call_model" >>, calls |-> << >>]
        ELSE
          LET c == check_consequences(m, d) IN
          IF should_get_confirmation(c.s) = "handle_confirmation"
            THEN LET h == handle_confirmation(c.s, c.d)
                 IN  [s |-> h.s, d |-> h.d,
                      nodes |-> << "call_model", "check_consequences", "handle_confirmation" >>,
                      calls |-> c.calls \o h.calls]
            ELSE LET t == call_tool(c.s, c.d)
                 IN  [s |-> t.s, d |-> t.d,
                      nodes |-> << "call_model", "check_consequences", "tools" >>,
                      calls |-> c.calls \o t.calls]

(***************************************************************************)
(* The session store (main.py)                                             *)
(***************************************************************************)
\* get_session_id_from_page that ignores the page
get_session_id_from_page_const(current_page) == "session_"

get_session_id_from_page(current_page) == "session_" \o current_page

\* NewSession with a transcript that is not empty
NewSession_with_greeting(current_page, t) ==
  [messages |-> << AIMessage(Content("model reply", "", 0), <<>>) >>,
   currentPage |-> current_page,
   confirmation_pending |-> FALSE,
   action_to_confirm |-> None,
   consequence_info |-> None,
   image_data |-> NoImage,
   last_access |-> t]

\* the dict get_or_create_session stores for a new session id
NewSession(current_page, t) ==
  [messages |-> << >>,
   currentPage |-> current_page,
   confirmation_pending |-> FALSE,
   action_to_confirm |-> None,
   consequence_info |-> None,
   image_data |-> NoImage,
   last_access |-> t]

\* get_or_create_session that rebinds session_states to a new dict
get_or_create_session_alone(store, session_id, current_page, t) ==
  IF session_id \notin DOMAIN store
    THEN (session_id :> NewSession(current_page, t))
    ELSE [store EXCEPT ![session_id].last_access = t]

\* session_states after get_or_create_session(session_id, current_page)
get_or_create_session(store, session_id, current_page, t) ==
  IF session_id \notin DOMAIN store
    THEN (session_id :> NewSession(current_page, t)) @@ store
    ELSE [store EXCEPT ![session_id].last_access = t]

\* expired_sessions with >= in place of >
expired_sessions_ge(store, t) ==
  { sid \in DOMAIN store :
      \/ store[sid].last_access = NoTime
      \/ (store[sid].last_access # NoTime /\ t - store[sid].last_access >= SESSION_TIMEOUT) }

\* the list `expired` of cleanup_old_sessions at current_time t
expired_sessions(store, t) ==
  { sid \in DOMAIN store :
      \/ store[sid].last_access = NoTime
      \/ (store[sid].last_access # NoTime /\ t - store[sid].last_access > SESSION_TIMEOUT) }

\* cleanup_old_sessions without the deleting loop
cleanup_old_sessions_keeps(store, t) == store

\* session_states after cleanup_old_sessions() at current_time t
cleanup_old_sessions(store, t) ==
  [sid \in DOMAIN store \ expired_sessions(store, t) |-> store[sid]]

\* the AgentState channels of a session dict (last_access is not a channel)
AgentState(session) ==
  [messages |-> session.messages,
   currentPage |-> session.currentPage,
   confirmation_pending |-> session.confirmation_pending,
   action_to_confirm |-> session.action_to_confirm,
   consequence_info |-> session.consequence_info,
   image_data |-> session.image_data]

\* Stamped without the time
Stamped_without_time(result, t) ==
  [messages |-> result.messages,
   currentPage |-> result.currentPage,
   confirmation_pending |-> result.confirmation_pending,
   action_to_confirm |-> result.action_to_confirm,
   consequence_info |-> result.consequence_info,
   image_data |-> result.image_data,
   last_access |-> NoTime]

\* result["last_access"] = datetime.now()
Stamped(result, t) ==
  [messages |-> result.messages,
   currentPage |-> result.currentPage,
   confirmation_pending |-> result.confirmation_pending,
   action_to_confirm |-> result.action_to_confirm,
   consequence_info |-> result.consequence_info,
   image_data |-> result.image_data,
   last_access |-> t]

(***************************************************************************)
(* Inputs: what users type and what the reasoning service answers          *)
(***************************************************************************)
TextYes == << " ", "Y", "e", "s" >>
TextNo == << "N", "O", " " >>
TextYesPlease == << "y", "e", "s", " ", "p", "l", "s" >>
TextRemoveBulk == << "r", "m", " ", "B" >>
TextDeletePath == << "d", "e", "l", " ", "P" >>
TextDeactivate == << "o", "f", "f", " ", "1" >>
TextStatusThenDelete == << "s", "t", "+", "d", "e", "l" >>
TextHello == << "h", "i" >>
TextLook == << "l", "o", "o", "k" >>
TextRemoveGhost == << "r", "m", " ", "?" >>
TextDeleteGhost == << "d", "e", "l", " ", "?" >>
TextDeactivateGhost == << "o", "f", "f", " ", "?" >>
TextDeleteNothing == << "d", "e", "l" >>
TextLaunch == << "g", "o" >>
TextYesDot == << "y", "e", "s", "." >>
TextNope == << "\t", "n", "o", "p", "e", "\n" >>

\* what a user types on a page
UserTexts(page) ==
  IF page = "busDashboard"
    THEN { TextYes, TextNo, TextYesPlease, TextRemoveBulk, TextDeletePath,
           TextStatusThenDelete, TextHello }
    ELSE { TextYes, TextDeactivate }

\* what a user types on a page along with a screenshot
ImageTexts(page) == IF page = "busDashboard" THEN { TextLook } ELSE { }

\* the same, with requests for things that do not exist
TurnTexts(page) ==
  UserTexts(page) \cup
    (IF page = "busDashboard"
       THEN { TextRemoveGhost, TextDeleteGhost, TextDeleteNothing, TextLaunch,
              TextYesDot, TextNope }
       ELSE { TextDeactivateGhost })

\* the answers of the reasoning service the model considers for a user text
ModelOutputs(text) ==
  CASE text = TextRemoveBulk ->
         { LlmReply(<< ToolCall("remove_vehicle_from_trip", BulkTrip, 1) >>) }
    [] text = TextDeletePath ->
         { LlmReply(<< ToolCall("delete_daily_trip", PathPathTrip, 1) >>) }
    [] text = TextDeactivate ->
         { LlmReply(<< ToolCall("deactivate_route", Route2, 1) >>),
           LlmReply(<< ToolCall("deactivate_route", Route3, 1) >>) }
    [] text = TextStatusThenDelete ->
         { LlmReply(<< ToolCall("get_trip_status", BulkTrip, 1),
                       ToolCall("delete_daily_trip", BulkTrip, 2) >>),
           LlmReply(<< ToolCall("delete_daily_trip", BulkTrip, 1),
                       ToolCall("get_trip_status", BulkTrip, 2) >>) }
    [] text = TextHello ->
         { LlmReply(<< >>), LlmError, LlmReply(<< ToolCall("launch_rocket", GhostTrip, 1) >>) }
    [] text = TextRemoveGhost ->
         { LlmReply(<< ToolCall("remove_vehicle_from_trip", GhostTrip, 1) >>) }
    [] text = TextDeleteGhost ->
         { LlmReply(<< ToolCall("delete_daily_trip", GhostTrip, 1) >>),
           LlmReply(<< ToolCall("get_trip_status", GhostTrip, 1) >>) }
    [] text = TextDeactivateGhost ->
         { LlmReply(<< ToolCall("deactivate_route", GhostRoute, 1) >>) }
    [] text = TextDeleteNothing ->
         { LlmReply(<< ToolCall("delete_daily_trip", MissingArg, 1),
                       ToolCall("get_trip_status", BulkTrip, 2) >>) }
    [] text = TextLaunch ->
         { LlmReply(<< ToolCall("launch_rocket", GhostTrip, 1),
                       ToolCall("delete_daily_trip", PathPathTrip, 2) >>),
           LlmSilent }
    [] OTHER -> { LlmReply(<< >>) }

(***************************************************************************)
(* State                                                                   *)
(***************************************************************************)
VARIABLES
  session_states,   \* main.py: the module-level dict session id -> session dict
  request_counter,  \* main.py: the module-level request counter
  db,               \* the rows of the data service
  now,              \* what datetime.now() returns
  req               \* the chat_endpoint coroutine of each request

vars == << session_states, request_counter, db, now, req >>

\* a coroutine that has not been started
IdleReq ==
  [pc |-> "idle", page |-> "", text |-> << >>, image |-> NoImage,
   session_id |-> "", session_state |-> None,
   before |-> None, expired |-> FALSE, db_before |-> None, db_after |-> None,
   out |-> None, result |-> None, nodes |-> << >>, calls |-> << >>,
   response |-> None, success |-> TRUE, error |-> None]

Init ==
  /\ session_states = [sid \in {} |-> NewSession("", 0)]
  /\ request_counter = 0
  /\ db = SeedDb
  /\ now = 0
  /\ req = [r \in Reqs |-> IdleReq]

(***************************************************************************)
(* The chat endpoint (main.py, chat_endpoint).  It is a coroutine on the   *)
(* single event loop of the server: it runs without interruption from one  *)
(* await to the next.                                                      *)
(***************************************************************************)
\* AwaitPoints if the agent were awaited (await movi_agent.ainvoke)
AwaitPoints_with_invoke == { "read_image", "invoke" }

\* the positions at which chat_endpoint awaits (await image.read())
AwaitPoints == { "read_image" }

\* no coroutine is running: each is not started, finished, or suspended
LoopFree == \A r \in Reqs : req[r].pc \in {"idle", "done", "error"} \cup AwaitPoints

\* lines 186-209: the sweep, the session lookup, and the new message put
\* into the session dict in place
OpenSession(r, page, text, image) ==
  LET swept == cleanup_old_sessions(session_states, now)
      sid == get_session_id_from_page(page)
      store == get_or_create_session(swept, sid, page, now)
      session == [store[sid] EXCEPT
                    !.messages = @ \o << HumanMessage(text) >>,
                    !.currentPage = page,
                    !.image_data = IF image # NoImage THEN image ELSE @]
  IN  /\ session_states' = [store EXCEPT ![sid] = session]
      /\ req' = [req EXCEPT ![r] =
                   [@ EXCEPT !.pc = "invoke", !.page = page, !.text = text,
                             !.image = image, !.session_id = sid,
                             !.session_state = Some(session),
                             !.before = IF sid \in DOMAIN swept
                                          THEN Some(AgentState(swept[sid])) ELSE None,
                             !.expired = sid \in expired_sessions(session_states, now)]]

\* a request without an image: the handler runs up to the agent call
ChatStart(r, page, text) ==
  /\ req[r].pc = "idle"
  /\ r = request_counter + 1
  /\ LoopFree
  /\ request_counter' = request_counter + 1
  /\ OpenSession(r, page, text, NoImage)
  /\ UNCHANGED << db, now >>

\* a request with an image: the handler suspends in await image.read()
ChatStartWithImage(r, page, text) ==
  /\ req[r].pc = "idle"
  /\ r = request_counter + 1
  /\ LoopFree
  /\ request_counter' = request_counter + 1
  /\ req' = [req EXCEPT ![r] = [@ EXCEPT !.pc = "read_image", !.page = page,
                                         !.text = text, !.image = "image bytes"]]
  /\ UNCHANGED << session_states, db, now >>

\* image.read() returned: the handler runs up to the agent call
ChatImageRead(r) ==
  /\ req[r].pc = "read_image"
  /\ LoopFree
  /\ OpenSession(r, req[r].page, req[r].text, req[r].image)
  /\ UNCHANGED << request_counter, db, now >>

\* lines 229-236: the text of the response, looked for from the end of the
\* transcript (position i downwards)
RECURSIVE agent_response_from(_, _)
agent_response_from(messages, i) ==
  IF i = 0
    THEN Content("I processed your request.", "", 0)
    ELSE IF messages[i].content.tag # "" /\ messages[i].role # "human"
      THEN messages[i].content
      ELSE agent_response_from(messages, i - 1)

\* agent_response that takes the last message whatever it holds
agent_response_last(messages) ==
  IF messages = << >> THEN Content("I processed your request.", "", 0)
  ELSE Last(messages).content

agent_response(messages) == agent_response_from(messages, Len(messages))

\* lines 211-243: movi_agent.invoke(session_state), the write back and the
\* response
ChatInvoke(r, out) ==
  /\ req[r].pc = "invoke"
  /\ \A q \in Reqs \ {r} : req[q].pc \in {"idle", "done", "error"} \cup AwaitPoints
  /\ LET run == movi_agent_invoke(AgentState(req[r].session_state[1]), db, out)
         result == Stamped(run.s, now)
     IN  /\ session_states' = (req[r].session_id :> result) @@ session_states
         /\ db' = run.d
         /\ req' = [req EXCEPT ![r] =
                      [@ EXCEPT !.pc = "done", !.session_state = None,
                                !.out = Some(out), !.db_before = Some(db),
                                !.db_after = Some(run.d),
                                !.result = Some(run.s), !.nodes = run.nodes,
                                !.calls = run.calls,
                                !.response = Some(agent_response(run.s.messages)),
                                !.success = TRUE]]
  /\ UNCHANGED << request_counter, now >>

\* the three actions for which check_consequences queries the data service
CheckedActions == { "remove_vehicle_from_trip", "delete_daily_trip", "deactivate_route" }

\* lines 245-253: movi_agent.invoke raised; here the query of
\* check_consequences on the data service did, which the node does not catch
ChatInvokeRaises(r, out) ==
  /\ req[r].pc = "invoke"
  /\ \A q \in Reqs \ {r} : req[q].pc \in {"idle", "done", "error"} \cup AwaitPoints
  /\ start_router(AgentState(req[r].session_state[1])) = "call_model"
  /\ out.tool_calls # << >>
  /\ out.tool_calls[1].name \in CheckedActions
  /\ req' = [req EXCEPT ![r] =
               [@ EXCEPT !.pc = "error", !.session_state = None,
                         !.out = Some(out), !.db_before = Some(db),
                         !.db_after = Some(db),
                         !.nodes = << "call_model", "check_consequences" >>,
                         !.response = Some(Content("I apologize, but I encountered an error processing your request.", "", 0)),
                         !.success = FALSE,
                         !.error = Some("OperationalError")]]
  /\ UNCHANGED << session_states, request_counter, db, now >>

\* time passes
Tick(t) ==
  /\ t > now
  /\ now' = t
  /\ UNCHANGED << session_states, request_counter, db, req >>

Next ==
  \/ \E r \in Reqs, page \in Pages : \E text \in UserTexts(page) : ChatStart(r, page, text)
  \/ \E r \in Reqs, page \in Pages : \E text \in ImageTexts(page) :
       ChatStartWithImage(r, page, text)
  \/ \E r \in Reqs : ChatImageRead(r)
  \/ \E r \in Reqs : \E out \in ModelOutputs(req[r].text) : ChatInvoke(r, out)
  \/ \E t \in Times : Tick(t)

Spec == Init /\ [][Next]_vars

(***************************************************************************)
(* A few turns, one after the other, with the wider inputs                 *)
(***************************************************************************)
TurnNext ==
  \/ \E r \in (1..MaxTurns) \cap Reqs, page \in Pages :
       \E text \in TurnTexts(page) : ChatStart(r, page, text)
  \/ \E r \in Reqs : \E out \in ModelOutputs(req[r].text) : ChatInvoke(r, out)
  \/ \E r \in Reqs : \E out \in ModelOutputs(req[r].text) : ChatInvokeRaises(r, out)

TurnSpec == Init /\ [][TurnNext]_vars

(***************************************************************************)
(* Vocabulary of the properties                                            *)
(***************************************************************************)
Done(r) == req[r].pc = "done"

\* the AgentState the turn of r found in the store (the defaults for a new key)
Before(r) ==
  IF req[r].before = None
    THEN AgentState(NewSession(req[r].page, 0))
    ELSE req[r].before[1]

\* the AgentState the turn of r wrote back
Result(r) == req[r].result[1]

StartPending(r) == Before(r).confirmation_pending

\* the reply of the turn, lower-cased and trimmed
Reply(r) == Strip(Lower(req[r].text))

\* the tool operations invoked in the turn of r
ToolCallsOf(r) == SelectSeq(req[r].calls, LAMBDA c : c.kind = "tool")

\* the turn of r consulted the reasoning service, which proposed invocations
Proposed(r) ==
  IF Done(r) /\ req[r].nodes[1] = "call_model" THEN req[r].out[1].tool_calls ELSE << >>

\* the invocation c is one of the three risky actions on a subject that has
\* bookings (a trip) or trips (a route) in the data store d
Risky(d, c) ==
  \/ /\ c.name \in {"remove_vehicle_from_trip", "delete_daily_trip"}
     /\ c.arg \in DOMAIN d.trips
     /\ d.trips[c.arg].pct > 0
  \/ /\ c.name = "deactivate_route"
     /\ c.arg \in DOMAIN d.routes
     /\ \E t \in DOMAIN d.trips : d.trips[t].route = c.arg

Visited(r, node) == \E i \in 1..Len(req[r].nodes) : req[r].nodes[i] = node

(***************************************************************************)
(* C1                                                                      *)
(***************************************************************************)
\* C1 (as claimed): whenever the model proposes, at any position of its
\* response, a risky invocation against a subject with bookings or trips, the
\* turn ends with confirmation_pending true and the tool executor did not run.
C1_EveryRiskyInvocationGated ==
  \A r \in Reqs :
    \A i \in 1..Len(Proposed(r)) :
      Risky(req[r].db_before[1], Proposed(r)[i]) =>
        /\ Result(r).confirmation_pending
        /\ ~Visited(r, "tools")
        /\ ToolCallsOf(r) = << >>

(***************************************************************************)
(* C2                                                                      *)
(***************************************************************************)
\* C2: a turn that starts with a confirmation pending and whose reply,
\* lower-cased and trimmed, is in the acceptance vocabulary invokes exactly one
\* tool operation, the stored action with its stored name and arguments, and
\* ends with confirmation_pending false and no stored action or consequence.
C2_AcceptExecutesStoredAction ==
  \A r \in Reqs :
    (Done(r) /\ StartPending(r) /\ Reply(r) \in AcceptWords) =>
      LET a == Before(r).action_to_confirm[1] IN
      /\ ToolCallsOf(r) = << DsCall("tool", a.name, a.arg) >>
      /\ Result(r).confirmation_pending = FALSE
      /\ Result(r).action_to_confirm = None
      /\ Result(r).consequence_info = None

\* an accepted confirmation changed the data store
C2_Witness ==
  \E r \in Reqs :
    /\ Done(r) /\ StartPending(r) /\ Reply(r) \in AcceptWords
    /\ req[r].text # Reply(r)
    /\ req[r].db_after # req[r].db_before

(***************************************************************************)
(* C3                                                                      *)
(***************************************************************************)
\* C3: a turn that starts with a confirmation pending and whose reply,
\* lower-cased and trimmed, is in the rejection vocabulary ends with
\* confirmation_pending false, no stored action or consequence, a cancellation
\* message appended, and no call at all on the data service.
C3_RejectClearsAndCallsNothing ==
  \A r \in Reqs :
    (Done(r) /\ StartPending(r) /\ Reply(r) \in RejectWords) =>
      /\ Result(r).confirmation_pending = FALSE
      /\ Result(r).action_to_confirm = None
      /\ Result(r).consequence_info = None
      /\ Result(r).messages =
           Before(r).messages \o
             << HumanMessage(req[r].text),
                AIMessage(Content("Action cancelled. The operation was not performed.", "", 0), <<>>) >>
      /\ req[r].calls = << >>
      /\ req[r].db_after = req[r].db_before

\* a pending confirmation was rejected
C3_Witness ==
  \E r \in Reqs :
    /\ Done(r) /\ StartPending(r) /\ Reply(r) \in RejectWords
    /\ Before(r).action_to_confirm # None

(***************************************************************************)
(* C4                                                                      *)
(***************************************************************************)
\* C4: a turn that starts with a confirmation pending and whose reply is in
\* neither vocabulary executes nothing and leaves confirmation_pending, the
\* stored action, the consequence info, the page context and the earlier
\* transcript as they were; the transcript gains the reply and the re-ask.
C4_UnclearOnlyReasks ==
  \A r \in Reqs :
    (Done(r) /\ StartPending(r) /\ Reply(r) \notin AcceptWords \cup RejectWords) =>
      /\ Result(r).confirmation_pending = Before(r).confirmation_pending
      /\ Result(r).action_to_confirm = Before(r).action_to_confirm
      /\ Result(r).consequence_info = Before(r).consequence_info
      /\ Result(r).currentPage = Before(r).currentPage
      /\ Result(r).messages =
           Before(r).messages \o
             << HumanMessage(req[r].text),
                AIMessage(Content("I didn't understand your response. Please reply with yes or no", "", 0), <<>>) >>
      /\ req[r].calls = << >>
      /\ req[r].db_after = req[r].db_before

\* a pending confirmation got a reply that contains an acceptance word only
C4_Witness ==
  \E r \in Reqs :
    /\ Done(r) /\ StartPending(r)
    /\ req[r].text = TextYesPlease

(***************************************************************************)
(* C5                                                                      *)
(***************************************************************************)
\* C5: in every session of the store, confirmation_pending is true if and
\* only if an action_to_confirm is stored.
C5_PendingIffActionStored ==
  \A sid \in DOMAIN session_states :
    session_states[sid].confirmation_pending <=>
      (session_states[sid].action_to_confirm # None)

\* a stored session waits for a confirmation, and another one was resolved
C5_Witness ==
  /\ \E sid \in DOMAIN session_states : session_states[sid].confirmation_pending
  /\ \E r \in Reqs : Done(r) /\ StartPending(r) /\ ~Result(r).confirmation_pending

(***************************************************************************)
(* C6                                                                      *)
(***************************************************************************)
\* C6: when the first invocation the model proposes is not one of the three
\* risky actions, or is one against a trip without bookings or a route without
\* trips, the tool executor runs in that turn and confirmation_pending is
\* false after it.
C6_SafeFirstInvocationExecutes ==
  \A r \in Reqs :
    (Proposed(r) # << >> /\ ~Risky(req[r].db_before[1], Proposed(r)[1])) =>
      /\ Visited(r, "tools")
      /\ ~Visited(r, "handle_confirmation")
      /\ Result(r).confirmation_pending = FALSE

\* a risky action on a trip without bookings was executed at once, and so was
\* a deactivation of a route without trips
C6_Witness ==
  /\ \E r \in Reqs :
       /\ Proposed(r) # << >>
       /\ Proposed(r)[1].name = "delete_daily_trip"
       /\ Visited(r, "tools")
       /\ PathPathTrip \notin DOMAIN req[r].db_after[1].trips
  /\ \E r \in Reqs :
       /\ Proposed(r) # << >>
       /\ Proposed(r)[1].name = "deactivate_route"
       /\ Visited(r, "tools")

(***************************************************************************)
(* C7                                                                      *)
(***************************************************************************)
\* C7: a turn that starts with confirmation_pending true goes straight to the
\* confirmation gate and does not call the reasoning service; a turn that
\* starts with confirmation_pending false goes to the reasoning service.
C7_StartRouting ==
  \A r \in Reqs :
    Done(r) =>
      IF StartPending(r)
        THEN req[r].nodes = << "handle_confirmation" >>
        ELSE req[r].nodes[1] = "call_model"

\* both kinds of turn happened
C7_Witness ==
  /\ \E r \in Reqs : Done(r) /\ StartPending(r)
  /\ \E r \in Reqs : Done(r) /\ ~StartPending(r) /\ Len(req[r].nodes) = 3

(***************************************************************************)
(* C8                                                                      *)
(***************************************************************************)
\* r has looked its session up and has not written the result back
InWindow(r) == req[r].pc = "invoke"

\* C8 (as claimed): while one request is between its read of the session and
\* its write back, a concurrent request on the same session key that waits
\* to read the session can go on and read it.
C8_ConcurrentTurnsInterleave ==
  \A r \in Reqs, q \in Reqs :
    (r # q /\ InWindow(r) /\ req[q].pc = "read_image" /\ req[q].page = req[r].page) =>
      ENABLED ChatImageRead(q)

\* C8 (amended): requests on one session key do not interleave between the
\* read of the session and the write back: while a request is in between, no
\* other request on that key is, and the stored session is still the one it
\* read, so no write overwrites the result of another turn.
C8_TurnsOnAKeyAreSerialised ==
  \A r \in Reqs :
    InWindow(r) =>
      /\ \A q \in Reqs \ {r} : ~(InWindow(q) /\ req[q].session_id = req[r].session_id)
      /\ req[r].session_id \in DOMAIN session_states
      /\ session_states[req[r].session_id] = req[r].session_state[1]

\* two requests on one key are in flight: one between read and write back,
\* the other suspended before its read
C8_Witness ==
  \E r \in Reqs, q \in Reqs :
    /\ r # q
    /\ InWindow(r)
    /\ req[q].pc = "read_image"
    /\ req[q].page = req[r].page

(***************************************************************************)
(* C9: the sweep as a function of the store and the time                   *)
(***************************************************************************)
SessionIds == { get_session_id_from_page(p) : p \in Pages }

\* session dicts of a page with last_access t
SampleSessions(page, t) ==
  { NewSession(page, t),
    [NewSession(page, t) EXCEPT !.messages = << HumanMessage(TextHello) >>] }

PageOf(sid) == CHOOSE p \in Pages : get_session_id_from_page(p) = sid

\* every page has a session, touched at some time up to now or never stamped
SweepInit ==
  /\ now \in Times
  /\ session_states \in
       [SessionIds -> UNION { SampleSessions(p, t) :
                                p \in Pages, t \in {u \in Times : u <= now} \cup {NoTime} }]
  /\ \A sid \in SessionIds : session_states[sid].currentPage = PageOf(sid)
  /\ request_counter = 0
  /\ db = SeedDb
  /\ req = [r \in Reqs |-> IdleReq]

\* cleanup_old_sessions() on its own
Sweep ==
  /\ session_states' = cleanup_old_sessions(session_states, now)
  /\ UNCHANGED << request_counter, db, now, req >>

SweepNext == Sweep \/ \E t \in Times : Tick(t)

SweepSpec == SweepInit /\ [][SweepNext]_vars

\* the session survives a sweep at the current time
Fresh(sid) ==
  /\ session_states[sid].last_access # NoTime
  /\ now - session_states[sid].last_access <= SESSION_TIMEOUT

\* C9: a sweep removes exactly the sessions whose age exceeds SESSION_TIMEOUT
\* or that have no last_access; a session whose age is at most the timeout
\* (exactly equal included) stays, with its content unchanged.
C9_SweepRemovesExactlyExpired ==
  [][ (now' = now) =>
        /\ DOMAIN session_states' = { sid \in DOMAIN session_states : Fresh(sid) }
        /\ \A sid \in DOMAIN session_states' : session_states'[sid] = session_states[sid]
    ]_vars

\* after a sweep one session is gone and one of age exactly the timeout stays
C9_Witness ==
  /\ \E sid \in SessionIds : sid \notin DOMAIN session_states
  /\ \E sid \in DOMAIN session_states :
       now - session_states[sid].last_access = SESSION_TIMEOUT

(***************************************************************************)
(* C10                                                                     *)
(***************************************************************************)
\* the step is the one in which request r sweeps and looks its session up
Opens(r) == req[r].pc \in {"idle", "read_image"} /\ req'[r].pc = "invoke"

\* the stored session sid is expired at the current time
Expired(sid) ==
  \/ session_states[sid].last_access = NoTime
  \/ now - session_states[sid].last_access > SESSION_TIMEOUT

\* C10: a turn sweeps before it looks its session up, so that a turn for a
\* session that is expired when the turn starts works on a newly created
\* default state and every other expired session is gone; and a session
\* leaves the store in no other step than such a sweep.
C10_SweepAtStartOfTurnOnly ==
  [][ /\ \A r \in Reqs :
           Opens(r) =>
             \A sid \in DOMAIN session_states :
               Expired(sid) =>
                 IF sid = req'[r].session_id
                   THEN /\ req'[r].before = None
                        /\ AgentState(session_states'[sid]) =
                             [AgentState(NewSession(req'[r].page, 0)) EXCEPT
                                !.messages = << HumanMessage(req'[r].text) >>,
                                !.image_data = req'[r].image]
                   ELSE sid \notin DOMAIN session_states'
      /\ (\E sid \in DOMAIN session_states : sid \notin DOMAIN session_states') =>
           \E r \in Reqs : Opens(r)
    ]_vars

\* a turn started on an expired session that was waiting for a confirmation
C10_Witness ==
  \E r \in Reqs, q \in Reqs :
    /\ InWindow(r)
    /\ req[r].expired
    /\ Done(q) /\ req[q].session_id = req[r].session_id
    /\ Result(q).confirmation_pending

(***************************************************************************)
(* C11                                                                     *)
(***************************************************************************)
\* r has looked its session up (and may have written the result back)
Opened(r) == req[r].pc \in {"invoke", "done"}

\* C11: a turn that finds no session for its key works on a session created
\* with an empty transcript, confirmation_pending false, no action to
\* confirm, no consequence info and no image, to which the handler has added
\* the message and the image of the turn; and the store holds a session only
\* for a key some turn has looked up.
C11_LazyDefaultSession ==
  /\ \A r \in Reqs :
       (InWindow(r) /\ req[r].before = None) =>
         /\ req[r].session_id \in DOMAIN session_states
         /\ AgentState(session_states[req[r].session_id]) =
              [messages |-> << HumanMessage(req[r].text) >>,
               currentPage |-> req[r].page,
               confirmation_pending |-> FALSE,
               action_to_confirm |-> None,
               consequence_info |-> None,
               image_data |-> req[r].image]
  /\ \A sid \in DOMAIN session_states :
       \E r \in Reqs : Opened(r) /\ req[r].session_id = sid

\* a first turn on one page is under way and the other page has no session
C11_Witness ==
  /\ \E r \in Reqs : InWindow(r) /\ req[r].before = None
  /\ \E p \in Pages : get_session_id_from_page(p) \notin DOMAIN session_states
  /\ \E r \in Reqs : Done(r)

(***************************************************************************)
(* C12                                                                     *)
(***************************************************************************)
\* page contexts: the two pages of the client, the default of the form field
\* and the empty string
PageSamples == Pages \cup { "unknown", "" }

\* C12: the session id is a function of the page context that maps different
\* pages to different ids; a turn works on the session of its page, and the
\* session it finds there is the one the last finished turn on that page,
\* whoever sent it, has written.
C12_SessionKeyedByPageOnly ==
  /\ \A p \in PageSamples, q \in PageSamples :
       (get_session_id_from_page(p) = get_session_id_from_page(q)) <=> (p = q)
  /\ \A r \in Reqs, q \in Reqs :
       (Opened(r) /\ Opened(q)) =>
         ((req[r].session_id = req[q].session_id) <=> (req[r].page = req[q].page))
  /\ \A r \in Reqs :
       (Opened(r) /\ req[r].before # None) =>
         \E q \in Reqs \ {r} :
           /\ Done(q)
           /\ req[q].page = req[r].page
           /\ Result(q) = req[r].before[1]

\* a confirmation left pending by one request was accepted by the next request
\* on that page, and a request on the other page found no confirmation pending
C12_Witness ==
  /\ \E r \in Reqs, q \in Reqs :
       /\ r # q /\ Done(r) /\ Done(q)
       /\ req[q].page = req[r].page
       /\ Result(q).confirmation_pending
       /\ req[r].before = Some(Result(q))
       /\ Reply(r) \in AcceptWords
  /\ \E r \in Reqs, q \in Reqs :
       /\ Done(q) /\ Result(q).confirmation_pending
       /\ Opened(r) /\ req[r].page # req[q].page
       /\ ~StartPending(r)

(***************************************************************************)
(* C13                                                                     *)
(***************************************************************************)
\* the step is one of the handler of request r
StepOf(r) == req'[r] # req[r]

\* a step changes or removes a stored session only if it is a step of a
\* request on the key of that session, or the sweep of a starting turn that
\* removes the session because it is expired
FrameOfOtherKeys ==
  \A sid \in DOMAIN session_states :
    \/ /\ sid \in DOMAIN session_states'
       /\ session_states'[sid] = session_states[sid]
    \/ \E r \in Reqs : StepOf(r) /\ req'[r].session_id = sid
    \/ /\ sid \notin DOMAIN session_states'
       /\ Expired(sid)
       /\ \E r \in Reqs : Opens(r)

\* the AgentState chat_endpoint hands to the agent in the turn of r
Entered(r) ==
  [Before(r) EXCEPT !.messages = @ \o << HumanMessage(req[r].text) >>,
                    !.currentPage = req[r].page,
                    !.image_data = IF req[r].image # NoImage THEN req[r].image ELSE @]

\* q is a finished turn that ran on the data store the finished turn r left,
\* on another key
Consecutive(r, q) ==
  /\ Done(r) /\ Done(q)
  /\ req[r].session_id # req[q].session_id
  /\ req[q].db_before = req[r].db_after

\* the two turns in the other order (q first, on the data store r found, then
\* r) end in the per-key states they ended in
SameInOtherOrder(r, q) ==
  LET q1 == movi_agent_invoke(Entered(q), req[r].db_before[1], req[q].out[1])
      r1 == movi_agent_invoke(Entered(r), q1.d, req[r].out[1])
  IN  /\ q1.s = Result(q)
      /\ r1.s = Result(r)

\* C13 (as claimed): a turn leaves the stored sessions of other keys alone,
\* but for the sweep of expired ones, and two turns on distinct keys end in the
\* same per-key states in either order.
C13_OtherKeysUntouchedAndOrderFree ==
  /\ [][FrameOfOtherKeys]_vars
  /\ [](\A r \in Reqs, q \in Reqs : Consecutive(r, q) => SameInOtherOrder(r, q))

\* neither turn changed the data store
DataUntouched(r, q) ==
  /\ req[r].db_after = req[r].db_before
  /\ req[q].db_after = req[q].db_before

\* C13 (amended): a turn leaves the stored sessions of other keys alone, but
\* for the sweep of expired ones; the data store is shared between the keys,
\* and two turns on distinct keys end in the same per-key states in either
\* order when neither of them changes the data store.
C13_OtherKeysUntouched ==
  /\ [][FrameOfOtherKeys]_vars
  /\ [](\A r \in Reqs, q \in Reqs :
          (Consecutive(r, q) /\ DataUntouched(r, q)) => SameInOtherOrder(r, q))

\* a turn on one key paused an action, then a turn on the other key paused one,
\* and both sessions are in the store
C13_Witness ==
  \E r \in Reqs, q \in Reqs :
    /\ Consecutive(r, q) /\ DataUntouched(r, q)
    /\ Result(r).confirmation_pending
    /\ Result(q).confirmation_pending
    /\ req[r].session_id \in DOMAIN session_states
    /\ AgentState(session_states[req[r].session_id]) = Result(r)
    /\ req[q].session_id \in DOMAIN session_states

(***************************************************************************)
(* C14                                                                     *)
(***************************************************************************)
\* the invocation c is one of the three risky actions and names a trip or a
\* route that the data store d does not hold
NotFound(d, c) ==
  /\ c.arg # MissingArg
  /\ \/ /\ c.name \in {"remove_vehicle_from_trip", "delete_daily_trip"}
        /\ c.arg \notin DOMAIN d.trips
     \/ /\ c.name = "deactivate_route"
        /\ c.arg \notin DOMAIN d.routes

\* the tool messages the tool executor appended in the turn of r, one for
\* each proposed invocation
ToolResults(r) ==
  LET n == Len(Result(r).messages)
  IN  SubSeq(Result(r).messages, n - Len(Proposed(r)) + 1, n)

\* C14: when the first invocation the model proposes is a risky action on a
\* trip or route that does not exist, the turn ends with confirmation_pending
\* false, the tool executor has run, the tool message of the invocation
\* reports that the trip or route was not found, and, the invocation being
\* the only one, the data store is as it was.
C14_NotFoundIsExecutedAndReported ==
  \A r \in Reqs :
    (Proposed(r) # << >> /\ NotFound(req[r].db_before[1], Proposed(r)[1])) =>
      LET c == Proposed(r)[1] IN
      /\ Result(r).confirmation_pending = FALSE
      /\ req[r].nodes = << "call_model", "check_consequences", "tools" >>
      /\ ToolResults(r)[1] =
           ToolMessage(Content(IF c.name = "deactivate_route"
                                 THEN "X Route not found." ELSE "X Trip not found.",
                               c.arg, 0), c.id)
      /\ (Len(Proposed(r)) = 1 => req[r].db_after = req[r].db_before)

\* a trip that does not exist was deleted and a route that does not exist
\* was deactivated
C14_Witness ==
  /\ \E r \in Reqs :
       /\ Proposed(r) # << >> /\ NotFound(req[r].db_before[1], Proposed(r)[1])
       /\ Proposed(r)[1].name = "delete_daily_trip"
  /\ \E r \in Reqs :
       /\ Proposed(r) # << >> /\ NotFound(req[r].db_before[1], Proposed(r)[1])
       /\ Proposed(r)[1].name = "deactivate_route"

(***************************************************************************)
(* C15                                                                     *)
(***************************************************************************)
\* every answer of the reasoning service the model considers
AllOutputs == UNION { ModelOutputs(text) : text \in UNION { TurnTexts(p) : p \in Pages } }

\* check_consequences on the state of the turn of r after the answer out
Checked(r, out) ==
  check_consequences(call_model(AgentState(req[r].session_state[1]), out), db)

\* C15: for every session state and data store a turn can find and every
\* answer of the reasoning service, the data store after check_consequences
\* is the data store before it, whether or not it finds a consequence.
C15_CheckLeavesDataAlone ==
  \A r \in Reqs :
    InWindow(r) => \A out \in AllOutputs : Checked(r, out).d = db

\* on a data store that earlier turns have changed, the check finds a
\* consequence for one answer and none for another risky one
C15_Witness ==
  \E r \in Reqs :
    /\ InWindow(r)
    /\ db # SeedDb
    /\ \E out \in AllOutputs :
         /\ Checked(r, out).s.confirmation_pending
         /\ Checked(r, out).calls # << >>
    /\ \E out \in AllOutputs :
         /\ ~Checked(r, out).s.confirmation_pending
         /\ Checked(r, out).calls # << >>

(***************************************************************************)
(* C16                                                                     *)
(***************************************************************************)
\* the proposed invocations of the turn of r that name a registered tool
Registered(r) == SelectSeq(Proposed(r), LAMBDA c : c.name \in get_all_tools)

\* C16: a turn that reaches the tool executor completes with one tool message
\* for each proposed invocation, in their order and with their ids: an error
\* message for an action that is not registered, a message with the text of
\* the exception for a registered tool that raised; and every registered tool
\* among the proposed invocations has been invoked, also those that come after
\* a failed one.
C16_ExecutorReportsAndGoesOn ==
  \A r \in Reqs :
    (Done(r) /\ Visited(r, "tools")) =>
      /\ Len(Result(r).messages) =
           Len(Entered(r).messages) + (IF Entered(r).image_data # NoImage THEN 1 ELSE 0)
             + 1 + Len(Proposed(r))
      /\ \A i \in 1..Len(Proposed(r)) :
           LET c == Proposed(r)[i]
               m == ToolResults(r)[i]
           IN  /\ m.role = "tool"
               /\ m.tool_call_id = c.id
               /\ (c.name \notin get_all_tools =>
                     m.content = Content("Error: Tool not found", c.name, 0))
               /\ (c.name \in NamedTools /\ c.arg = MissingArg =>
                     m.content = Content("Error: validation error: field required", c.name, 0))
      /\ ToolCallsOf(r) =
           [i \in 1..Len(Registered(r)) |->
              DsCall("tool", Registered(r)[i].name, Registered(r)[i].arg)]

\* an unregistered action was followed by a deletion that took place, and an
\* invocation that raised was followed by a status query that was answered
C16_Witness ==
  /\ \E r \in Reqs :
       /\ Done(r) /\ Visited(r, "tools") /\ Len(Proposed(r)) = 2
       /\ Proposed(r)[1].name \notin get_all_tools
       /\ req[r].db_after # req[r].db_before
  /\ \E r \in Reqs :
       /\ Done(r) /\ Visited(r, "tools") /\ Len(Proposed(r)) = 2
       /\ Proposed(r)[1].arg = MissingArg
       /\ ToolResults(r)[2].content.tag = "The trip is currently"

(***************************************************************************)
(* C17                                                                     *)
(***************************************************************************)
\* the result texts with which an execution reports that it failed: those of
\* call_tool for an unregistered action and for a tool that raised, and the
\* not-found texts of the data service
FailureTags ==
  { "Error: Tool not found", "Error: validation error: field required",
    "X Trip not found.", "X Route not found.", "Trip not found." }

\* the marker a result text starts with: "Error: " in the texts call_tool
\* makes, the cross mark (written X) in the texts of the writing operations of
\* the data service, none in the not-found text of query_trip_status
failure_prefix(content) ==
  CASE content.tag \in {"Error: Tool not found", "Error: validation error: field required"} ->
         "Error: "
    [] content.tag \in {"X Trip not found.", "X Route not found."} -> "X "
    [] OTHER -> ""

\* the tool messages of failed executions in the turns that have finished
FailureResults ==
  { m \in UNION { { ToolResults(r)[i] : i \in 1..Len(Proposed(r)) } :
                    r \in { q \in Reqs : Done(q) /\ Visited(q, "tools") } } :
      m.content.tag \in FailureTags }

\* C17 (as claimed): the result texts of all failed executions start with one
\* and the same failure prefix.
C17_FailuresShareOnePrefix ==
  \A m1 \in FailureResults, m2 \in FailureResults :
    /\ failure_prefix(m1.content) # ""
    /\ failure_prefix(m1.content) = failure_prefix(m2.content)

(***************************************************************************)
(* C18                                                                     *)
(***************************************************************************)
\* the call of the reasoning service in the turn of r raised
LlmFailed(r) == Done(r) /\ req[r].nodes[1] = "call_model" /\ req[r].out[1].fail

\* the messages the image analysis put before the answer in the turn of r
VisionOf(r) ==
  IF Entered(r).image_data # NoImage
    THEN << SystemMessage(Content("Image Analysis", "", 0)) >>
    ELSE << >>

\* C18: a turn in which the call of the reasoning service fails visits
\* call_model once and no other node, calls nothing on the data service, adds
\* the one fallback message of the assistant to the transcript and leaves
\* confirmation_pending, action_to_confirm and consequence_info as they were;
\* the next turn on the session is routed to the reasoning service as usual.
C18_LlmFailureEndsTurnWithFallback ==
  \A r \in Reqs :
    LlmFailed(r) =>
      /\ req[r].nodes = << "call_model" >>
      /\ req[r].calls = << >>
      /\ req[r].db_after = req[r].db_before
      /\ Result(r).messages =
           Entered(r).messages \o VisionOf(r) \o
             << AIMessage(Content("I ran into an issue reaching my language model", "", 0), <<>>) >>
      /\ Result(r).confirmation_pending = Before(r).confirmation_pending
      /\ Result(r).action_to_confirm = Before(r).action_to_confirm
      /\ Result(r).consequence_info = Before(r).consequence_info
      /\ \A q \in Reqs \ {r} :
           (Done(q) /\ req[q].before = Some(Result(r))) =>
             /\ req[q].nodes[1] = "call_model"
             /\ SubSeq(Result(q).messages, 1, Len(Result(r).messages) + 1) =
                  Result(r).messages \o << HumanMessage(req[q].text) >>

\* after a turn in which the reasoning service failed, the next turn on the
\* session proposed an action, which was paused for confirmation
C18_Witness ==
  \E r \in Reqs, q \in Reqs :
    /\ r # q
    /\ LlmFailed(r)
    /\ Done(q) /\ req[q].before = Some(Result(r))
    /\ Result(q).confirmation_pending

(***************************************************************************)
(* C19                                                                     *)
(***************************************************************************)
\* the image-analysis messages of a transcript
Analyses(messages) == SelectSeq(messages, LAMBDA m : m.role = "system")

\* C19 (as claimed): after a turn in which call_model has processed an
\* image the stored session holds no image, and a turn that arrives without an
\* image adds no image-analysis message to the transcript.
C19_AttachmentProcessedOnce ==
  \A r \in Reqs :
    Done(r) =>
      /\ (Visited(r, "call_model") /\ Entered(r).image_data # NoImage) =>
           Result(r).image_data = NoImage
      /\ req[r].image = NoImage =>
           Len(Analyses(Result(r).messages)) = Len(Analyses(Before(r).messages))

(***************************************************************************)
(* C20                                                                     *)
(***************************************************************************)
\* C20: in every session of the store a consequence_info is stored if and
\* only if confirmation_pending is true; a turn that ends with a confirmation
\* newly pending has stored the consequence info and the action in
\* check_consequences, and a turn whose reply accepts or rejects a pending
\* confirmation ends without consequence info.
C20_ConsequenceInfoIffPending ==
  /\ \A sid \in DOMAIN session_states :
       (session_states[sid].consequence_info # None) <=>
         session_states[sid].confirmation_pending
  /\ \A r \in Reqs :
       Done(r) =>
         /\ (~StartPending(r) /\ Result(r).confirmation_pending) =>
              /\ Visited(r, "check_consequences")
              /\ Result(r).consequence_info # None
              /\ Result(r).action_to_confirm = Some(Proposed(r)[1])
         /\ (StartPending(r) /\ Reply(r) \in AcceptWords \cup RejectWords) =>
              /\ ~Result(r).confirmation_pending
              /\ Result(r).consequence_info = None

\* a session holds the consequence info of a paused action while the
\* confirmation of another action has been accepted or rejected
C20_Witness ==
  /\ \E sid \in DOMAIN session_states :
       /\ session_states[sid].confirmation_pending
       /\ session_states[sid].consequence_info # None
  /\ \E r \in Reqs :
       /\ Done(r) /\ StartPending(r)
       /\ Reply(r) \in AcceptWords \cup RejectWords
       /\ Before(r).consequence_info # None

(***************************************************************************)
(* C21: the confirmation gate on states that hold no action to confirm     *)
(***************************************************************************)
\* a consequence info as check_consequences stores it
SampleInfo == [type |-> "vehicle_removal", name |-> BulkTrip, impact |-> 25]

\* session dicts of a page that wait for a confirmation: without a stored
\* action (with and without a consequence info), and with one
GateSessions(page) ==
  { [NewSession(page, 0) EXCEPT !.messages = transcript,
                                !.confirmation_pending = TRUE,
                                !.action_to_confirm = fields[1],
                                !.consequence_info = fields[2]] :
      transcript \in { << HumanMessage(TextHello), AIMessage(Content("model reply", "", 0), <<>>) >> },
      fields \in { << None, None >>, << None, Some(SampleInfo) >>,
                   << Some(ToolCall("remove_vehicle_from_trip", BulkTrip, 1)), Some(SampleInfo) >>,
                   << Some(ToolCall("delete_daily_trip", BulkTrip, 1)),
                      Some([SampleInfo EXCEPT !.type = "trip_deletion"]) >> } }

\* every page has a session that waits for a confirmation
GateInit ==
  /\ session_states \in [SessionIds -> UNION { GateSessions(p) : p \in Pages }]
  /\ \A sid \in SessionIds : session_states[sid].currentPage = PageOf(sid)
  /\ request_counter = 0
  /\ db = SeedDb
  /\ now = 0
  /\ req = [r \in Reqs |-> IdleReq]

GateSpec == GateInit /\ [][TurnNext]_vars

NonUser(messages) == { i \in 1..Len(messages) : messages[i].role # "human" }

\* the same, without the messages that have no text
NonUserWithText(messages) == { i \in NonUser(messages) : messages[i].content.tag # "" }

Max(S) == CHOOSE i \in S : \A j \in S : j <= i

\* C22 (as claimed): the response of a finished turn is the text of the most
\* recent message of the transcript that is not a message of the user.
C22_ReplyIsLastNonUserMessage ==
  \A r \in Reqs :
    Done(r) =>
      /\ NonUser(Result(r).messages) # {}
      /\ req[r].response =
           Some(Result(r).messages[Max(NonUser(Result(r).messages))].content)

\* C22 (amended): the response of a finished turn is the text of the most
\* recent message of the transcript that is not a message of the user and has
\* a text; when the transcript has no such message, it is the fixed text
\* "I processed your request.".
C22_ReplyIsLastNonUserText ==
  \A r \in Reqs :
    Done(r) =>
      IF NonUserWithText(Result(r).messages) = {}
        THEN req[r].response = Some(Content("I processed your request.", "", 0))
        ELSE req[r].response =
               Some(Result(r).messages[Max(NonUserWithText(Result(r).messages))].content)

\* the reasoning service answered without text, and the response of the turn
\* is the text of a message of an earlier turn
C22_Witness ==
  \E r \in Reqs :
    /\ Done(r) /\ Last(Result(r).messages).content.tag = ""
    /\ req[r].response # Some(Content("I processed your request.", "", 0))
    /\ req[r].response = Some(Last(Before(r).messages).content)

(***************************************************************************)
(* C23                                                                     *)
(***************************************************************************)
\* the sequence a is an initial part of the sequence b
IsPrefix(a, b) == Len(a) <= Len(b) /\ SubSeq(b, 1, Len(a)) = a

\* C23: in every step the transcript of a stored session that stays in the
\* store has its former value as an initial part, unless the step is the
\* start of a turn that sweeps the session as expired and creates it anew.
C23_TranscriptAppendOnly ==
  [][ \A sid \in DOMAIN session_states \cap DOMAIN session_states' :
        \/ IsPrefix(session_states[sid].messages, session_states'[sid].messages)
        \/ (Expired(sid) /\ \E r \in Reqs : Opens(r) /\ req'[r].session_id = sid)
    ]_vars

\* a session went through a warning, an unclear reply and an accepted one: its
\* transcript holds the messages of the three turns in their order
C23_Witness ==
  \E r \in Reqs :
    /\ Done(r) /\ StartPending(r) /\ Reply(r) \in AcceptWords
    /\ Len(Before(r).messages) >= 6
    /\ IsPrefix(Before(r).messages, Result(r).messages)
    /\ req[r].session_id \in DOMAIN session_states
    /\ session_states[req[r].session_id].messages = Result(r).messages

(***************************************************************************)
(* C24                                                                     *)
(***************************************************************************)
\* the step is the one in which the turn of r completes
Completes(r) == req[r].pc = "invoke" /\ req'[r].pc = "done"

\* C24: in the step in which a turn completes, the session stored under its
\* key becomes the final state of the agent for the turn, with the current time
\* as last_access; and a turn that starts on a key whose session is in the
\* store and not expired starts from the state stored there.
C24_StoredStateIsFinalState ==
  [][ \A r \in Reqs :
        /\ Completes(r) =>
             /\ req[r].session_id \in DOMAIN session_states'
             /\ AgentState(session_states'[req[r].session_id]) = req'[r].result[1]
             /\ session_states'[req[r].session_id].last_access = now
        /\ (Opens(r) /\ req'[r].session_id \in DOMAIN session_states
                     /\ ~Expired(req'[r].session_id)) =>
             req'[r].before = Some(AgentState(session_states[req'[r].session_id]))
    ]_vars

\* a turn has completed at a later time than its session was created, and the
\* next turn on the key has started from the state it stored
C24_Witness ==
  \E r \in Reqs, q \in Reqs :
    /\ r # q /\ Done(r) /\ InWindow(q)
    /\ req[q].before = Some(Result(r))
    /\ Result(r).confirmation_pending
    /\ now > 0

(***************************************************************************)
(* C25                                                                     *)
(***************************************************************************)
\* the handler of r has returned its response
Answered(r) == req[r].pc \in {"done", "error"}

\* the turn of r failed: the agent raised, or the call of the reasoning
\* service failed inside call_model
FailurePath(r) == req[r].pc = "error" \/ LlmFailed(r)

\* C25 (as claimed): every request is answered with a response that has a
\* text; a turn in which an exception reached the handler is answered with
\* success false and the text of the error; and the response says success
\* false for every turn that failed and success true for every other turn.
C25_EveryFailureIsFlagged ==
  \A r \in Reqs :
    Answered(r) =>
      /\ req[r].response # None
      /\ req[r].response[1].tag # ""
      /\ (req[r].pc = "error" => (~req[r].success /\ req[r].error # None))
      /\ (req[r].success <=> ~FailurePath(r))

(***************************************************************************)
(* C26: the operations of the data service, called one after the other     *)
(***************************************************************************)
\* names of trips and booking percentages the operations are called with
EveningTrip == "Evening Run - 18:00"
TripNames == { BulkTrip, PathPathTrip, EveningTrip }
RouteNames == { Route1, GhostRoute }
Percentages == { 0, 50, 101 }

DataCreate(route_name, display_name, booking_percentage, fault) ==
  /\ db' = create_daily_trip(db, route_name, display_name, booking_percentage, fault).db
  /\ UNCHANGED << session_states, request_counter, now, req >>

DataDelete(trip_name, fault) ==
  /\ db' = delete_daily_trip_with(db, trip_name, fault).db
  /\ UNCHANGED << session_states, request_counter, now, req >>

DataRemoveVehicle(trip_name) ==
  /\ db' = delete_vehicle_from_trip(db, trip_name).db
  /\ UNCHANGED << session_states, request_counter, now, req >>

DataDeactivate(route_name) ==
  /\ db' = deactivate_route(db, route_name).db
  /\ UNCHANGED << session_states, request_counter, now, req >>

DataAssign(trip_name, vehicle_license, driver_name, fault) ==
  /\ db' = create_deployment(db, trip_name, vehicle_license, driver_name, fault).db
  /\ UNCHANGED << session_states, request_counter, now, req >>

DataNext ==
  \/ \E route_name \in RouteNames, display_name \in TripNames,
        booking_percentage \in Percentages, fault \in Faults :
       DataCreate(route_name, display_name, booking_percentage, fault)
  \/ \E trip_name \in TripNames, fault \in Faults : DataDelete(trip_name, fault)
  \/ \E trip_name \in TripNames : DataRemoveVehicle(trip_name)
  \/ \E trip_name \in TripNames, vehicle_license \in SeedVehicles \cup { Null },
        driver_name \in SeedDrivers, fault \in Faults :
       DataAssign(trip_name, vehicle_license, driver_name, fault)
  \/ \E route_name \in RouteNames : DataDeactivate(route_name)

DataSpec == Init /\ [][DataNext]_vars

\* the result texts with which the operations of the data service report that
\* they failed
DataFailureTags ==
  { "X Route not found.", "X Trip already exists.", "X Trip not found.",
    "X Booking percentage must be between 0 and 100.",
    "X Error creating daily trip", "X Error deleting daily trip" }

\* C26 (as claimed): whenever create_daily_trip or delete_daily_trip returns
\* a failure result, the data store is as it was before the call; every trip
\* of the data store has its deployment row, and every deployment row its trip.
C26_FailureLeavesDataUnchanged ==
  /\ \A route_name \in RouteNames, display_name \in TripNames,
        booking_percentage \in Percentages, fault \in Faults :
       LET r == create_daily_trip(db, route_name, display_name, booking_percentage, fault)
       IN  r.res.tag \in DataFailureTags => r.db = db
  /\ \A trip_name \in TripNames, fault \in Faults :
       LET r == delete_daily_trip_with(db, trip_name, fault)
       IN  r.res.tag \in DataFailureTags => r.db = db
  /\ DOMAIN db.trips = DOMAIN db.deployments

(***************************************************************************)
(* C27: what the warning says                                              *)
(***************************************************************************)
\* what the texts that check_consequences writes say: the consequence
\* category they name and the statements they make
statements(tag) ==
  CASE tag = "CONSEQUENCE WARNING: I can remove the vehicle; % booked; Do you want to proceed? (yes/no)" ->
         [category |-> "vehicle_removal", says |-> { "impact", "ask_yes_no" }]
    [] tag = "CONSEQUENCE WARNING: I can delete the trip; % booked; Do you want to proceed? (yes/no)" ->
         [category |-> "trip_deletion", says |-> { "impact", "ask_yes_no" }]
    [] tag = "CONSEQUENCE WARNING: I can deactivate route; active trip(s); Do you want to proceed? (yes/no)" ->
         [category |-> "route_deactivation", says |-> { "impact", "ask_yes_no" }]
    [] tag = "Action paused pending confirmation. No changes made yet." ->
         [category |-> "", says |-> { "no_change_yet" }]
    [] OTHER -> [category |-> "", says |-> { }]

\* the turn r is finished and its consequence check detected risk
RiskDetected(r) ==
  /\ Done(r)
  /\ Visited(r, "check_consequences")
  /\ Result(r).confirmation_pending

\* C27 (as claimed): whenever the consequence check detects risk, the warning
\* that the turn returns names the consequence category, states the impact
\* value the query returned, states that no change has been made yet, and asks
\* for an explicit yes or no.
C27_WarningSaysAllFour ==
  \A r \in Reqs :
    RiskDetected(r) =>
      LET warning == req[r].response[1]
          info == Result(r).consequence_info[1]
      IN  /\ warning = Last(Result(r).messages).content
          /\ statements(warning.tag).category = info.type
          /\ "impact" \in statements(warning.tag).says
          /\ warning.num = info.impact
          /\ warning.subject = info.name
          /\ "ask_yes_no" \in statements(warning.tag).says
          /\ "no_change_yet" \in statements(warning.tag).says

(***************************************************************************)
(* C28: the turn without risk                                              *)
(***************************************************************************)
\* the consequence check of the turn of r found no risk: the reasoning
\* service proposed invocations and the first is not risky in the data store
\* the turn found
NoRisk(r) ==
  /\ Proposed(r) # << >>
  /\ ~Risky(req[r].db_before[1], Proposed(r)[1])

\* C28: when the consequence check finds no risk, the turn visits the
\* reasoning node once, the consequence check and the tool executor and ends;
\* the transcript ends with one tool message per proposed invocation, in the
\* proposed order, each with the id of its invocation and the result of the
\* invocation on the data store the invocations before it left; every
\* registered invocation was invoked exactly once, in order, and the data
\* store after the turn is the one the last invocation left.
C28_NoRiskExecutesAllInOrder ==
  \A r \in Reqs :
    NoRisk(r) =>
      LET run == dispatch(Proposed(r), 1, req[r].db_before[1]) IN
      /\ req[r].nodes = << "call_model", "check_consequences", "tools" >>
      /\ Len(ToolResults(r)) = Len(Proposed(r))
      /\ \A i \in 1..Len(Proposed(r)) :
           /\ ToolResults(r)[i].role = "tool"
           /\ ToolResults(r)[i].tool_call_id = Proposed(r)[i].id
           /\ ToolResults(r)[i].content = run.msgs[i].content
      /\ Len(ToolCallsOf(r)) = Len(Registered(r))
      /\ \A i \in 1..Len(Registered(r)) :
           /\ ToolCallsOf(r)[i].op = Registered(r)[i].name
           /\ ToolCallsOf(r)[i].arg = Registered(r)[i].arg
      /\ req[r].db_after[1] = run.d
      /\ Last(SubSeq(Result(r).messages, 1,
                     Len(Result(r).messages) - Len(Proposed(r)))).tool_calls = Proposed(r)

\* a turn without risk executed two invocations with different ids, the
\* second of which changed the data store
C28_Witness ==
  \E r \in Reqs :
    /\ NoRisk(r)
    /\ Len(Proposed(r)) = 2
    /\ Proposed(r)[1].id # Proposed(r)[2].id
    /\ ToolResults(r)[2].tool_call_id = Proposed(r)[2].id
    /\ req[r].db_after # req[r].db_before

(***************************************************************************)
(* C29: the orchestration graph                                            *)
(***************************************************************************)
START == "__start__"
END == "__end__"

GraphNodes == { "call_model", "check_consequences", "tools", "handle_confirmation" }

\* the graph with the loop from the tool executor back to the reasoning node
GraphEdges_with_loop ==
  { << START, "handle_confirmation" >>, << START, "call_model" >>,
    << "call_model", "check_consequences" >>, << "call_model", END >>,
    << "check_consequences", "handle_confirmation" >>, << "check_consequences", "tools" >>,
    << "tools", "call_model" >>, << "tools", END >>,
    << "handle_confirmation", END >> }

\* the edges create_movi_agent adds, conditional ones with every target
GraphEdges ==
  { << START, "handle_confirmation" >>, << START, "call_model" >>,
    << "call_model", "check_consequences" >>, << "call_model", END >>,
    << "check_consequences", "handle_confirmation" >>, << "check_consequences", "tools" >>,
    << "tools", END >>,
    << "handle_confirmation", END >> }

\* the nodes reached from the nodes of from in one to k steps along edges
RECURSIVE ReachedFrom(_, _, _)
ReachedFrom(edges, from, k) ==
  LET next == { e[2] : e \in { e \in edges : e[1] \in from } }
  IN  IF k = 0 THEN { } ELSE next \cup ReachedFrom(edges, next, k - 1)

Acyclic(edges) ==
  \A n \in GraphNodes : n \notin ReachedFrom(edges, {n}, Cardinality(GraphNodes) + 2)

\* nodes is a path of the graph from START to END that visits no node twice
PathToEnd(nodes) ==
  /\ nodes # << >>
  /\ << START, nodes[1] >> \in GraphEdges
  /\ \A i \in 1..(Len(nodes) - 1) : << nodes[i], nodes[i + 1] >> \in GraphEdges
  /\ << Last(nodes), END >> \in GraphEdges
  /\ \A i, j \in 1..Len(nodes) : nodes[i] = nodes[j] => i = j

\* the run of the graph that the turn of r, about to enter it, makes when the
\* reasoning service answers out
RunOf(r, out) == movi_agent_invoke(AgentState(req[r].session_state[1]), db, out)

\* C29: the orchestration graph has no cycle and every node has a way to END;
\* for every turn about to enter the graph and every answer of the reasoning
\* service, the run of the graph is a path from START to END on which the
\* reasoning node, the consequence check, the tool executor and the
\* confirmation gate occur at most once each; and the nodes every finished
\* turn has visited are such a path.
C29_EveryTurnReachesEnd ==
  /\ Acyclic(GraphEdges)
  /\ \A n \in GraphNodes : END \in ReachedFrom(GraphEdges, {n}, Cardinality(GraphNodes))
  /\ \A r \in Reqs :
       req[r].pc = "invoke" =>
         \A out \in ModelOutputs(req[r].text) : PathToEnd(RunOf(r, out).nodes)
  /\ \A r \in Reqs : Done(r) => PathToEnd(req[r].nodes)

\* the consequence check of one turn led to the confirmation gate, and the
\* next turn entered the confirmation gate from START
C29_Witness ==
  /\ \E r \in Reqs :
       Done(r) /\ req[r].nodes = << "call_model", "check_consequences", "handle_confirmation" >>
  /\ \E r \in Reqs : Done(r) /\ req[r].nodes = << "handle_confirmation" >>

(***************************************************************************)
(* C30: only the first invocation is inspected                             *)
(***************************************************************************)
\* the messages the turn of r added to the transcript it entered with
Added(r) ==
  SubSeq(Result(r).messages, Len(Entered(r).messages) + 1, Len(Result(r).messages))

\* the queries the consequence check of the turn of r made
QueriesOf(r) == SelectSeq(req[r].calls, LAMBDA c : c.kind = "query")

OnlyUnclear(msgs) ==
  /\ Len(msgs) % 2 = 0
  /\ \A i \in 1..Len(msgs) :
       IF i % 2 = 1
         THEN /\ msgs[i].role = "human"
              /\ user_response_of(msgs[i].content.text) \notin AcceptWords \cup RejectWords
         ELSE msgs[i] =
                AIMessage(Content("I didn't understand your response. Please reply with yes or no", "", 0), <<>>)

\* the messages of the transcript the turn of a found that came after the
\* turn of w
Since(w, a) ==
  SubSeq(Before(a).messages, Len(Result(w).messages) + 1, Len(Before(a).messages))

\* the turn of a is on the session of the warning turn w, and between the two
\* there were only replies in neither vocabulary
AfterUnclearOnly(w, a) ==
  /\ RiskDetected(w)
  /\ Done(a)
  /\ req[a].session_id = req[w].session_id
  /\ StartPending(a)
  /\ IsPrefix(Result(w).messages, Before(a).messages)
  /\ OnlyUnclear(Since(w, a))

\* C31: after a warning for the invocation X, and any number of replies in
\* neither vocabulary since, a turn enters the confirmation gate only and
\* does not call the reasoning service; a reply in neither vocabulary
\* executes nothing and leaves X stored; a reply in the acceptance vocabulary
\* executes X, with the action name and argument the model proposed in the
\* warning turn, and nothing else, and the reply of the turn is the
\* acknowledgment of completion with the output of the operation.
C31_AcceptAfterUnclearExecutesX ==
  \A w \in Reqs, a \in Reqs :
    AfterUnclearOnly(w, a) =>
      LET X == Proposed(w)[1]
          run == tool_invoke(req[a].db_before[1], X.name, X.arg)
      IN  /\ req[a].nodes = << "handle_confirmation" >>
          /\ Before(a).action_to_confirm = Some(X)
          /\ (Reply(a) \notin AcceptWords \cup RejectWords =>
                /\ req[a].calls = << >>
                /\ Result(a).action_to_confirm = Some(X)
                /\ Result(a).confirmation_pending)
          /\ (Reply(a) \in AcceptWords =>
                /\ req[a].calls = << DsCall("tool", X.name, X.arg) >>
                /\ req[a].db_after[1] = run.db
                /\ ~run.raised
                /\ req[a].response =
                     Some([run.res EXCEPT !.tag = "Action completed: " \o @])
                /\ ~Result(a).confirmation_pending)

\* a warning was followed by a reply in neither vocabulary and then by an
\* acceptance that changed the data store
C31_Witness ==
  \E w \in Reqs, a \in Reqs :
    /\ AfterUnclearOnly(w, a)
    /\ Len(Since(w, a)) >= 2
    /\ Reply(a) \in AcceptWords
    /\ req[a].db_after # req[a].db_before

(***************************************************************************)
(* C32: the classification of a reply                                      *)
(***************************************************************************)
\* the branch of handle_confirmation the finished turn of r took, read from
\* what the turn did: the message it appended last and its calls
Outcome(r) ==
  LET last == Last(Result(r).messages) IN
  IF last = AIMessage(Content("Action cancelled. The operation was not performed.", "", 0), <<>>)
    THEN "reject"
  ELSE IF last = AIMessage(Content("I didn't understand your response. Please reply with yes or no", "", 0), <<>>)
    THEN "unclear"
  ELSE IF req[r].calls # << >> /\ ~Result(r).confirmation_pending
    THEN "accept"
  ELSE "none"

\* the turn of r was classified by the confirmation gate
Classified(r) ==
  /\ Done(r)
  /\ StartPending(r)
  /\ Before(r).action_to_confirm # None

\* a word with blanks around it
Padded(word) == << " " >> \o word \o << "\n", "\t" >>

\* C32: a turn the confirmation gate classifies takes the accept branch when
\* its reply, lower-cased and trimmed, is one of the six acceptance words, the
\* reject branch when it is one of the six rejection words, and the unclear
\* branch otherwise, whatever the page, the transcript and the data store; no
\* word is in both vocabularies; " Yes" is accepted, "NO " and "\tnope\n" are
\* rejected, and "yes pls" and "yes." are unclear; every word of a vocabulary
\* with blanks around it is classified as the word is.
C32_ClassificationByExactToken ==
  /\ AcceptWords \cap RejectWords = { }
  /\ Cardinality(AcceptWords) = 6 /\ Cardinality(RejectWords) = 6
  /\ \A r \in Reqs :
       Classified(r) =>
         /\ Outcome(r) \in { "accept", "reject", "unclear" }
         /\ (Outcome(r) = "accept" <=> Strip(Lower(req[r].text)) \in AcceptWords)
         /\ (Outcome(r) = "reject" <=> Strip(Lower(req[r].text)) \in RejectWords)
         /\ (req[r].text = TextYes => Outcome(r) = "accept")
         /\ (req[r].text \in { TextNo, TextNope } => Outcome(r) = "reject")
         /\ (req[r].text \in { TextYesPlease, TextYesDot } => Outcome(r) = "unclear")
  /\ \A word \in AcceptWords :
       confirmation_branch(user_response_of(Padded(word))) = "accept"
  /\ \A word \in RejectWords :
       confirmation_branch(user_response_of(Padded(word))) = "reject"
  /\ \A word \in AcceptWords \cup RejectWords :
       confirmation_branch(user_response_of(word \o << "." >>)) = "unclear"

\* the gate has accepted " Yes", rejected "\tnope\n" and asked again after
\* "yes."
C32_Witness ==
  /\ \E r \in Reqs : Classified(r) /\ req[r].text = TextYes /\ Outcome(r) = "accept"
  /\ \E r \in Reqs : Classified(r) /\ req[r].text = TextNope /\ Outcome(r) = "reject"

(***************************************************************************)
(* C33: the acknowledgment of an accepted confirmation                     *)
(***************************************************************************)
\* the turn of r took the accept branch and invoked the stored action
Accepted(r) == Classified(r) /\ Outcome(r) = "accept"

\* the output of the operation the accepted turn of r invoked: the text of
\* the tool message it appended
OutputOf(r) == Result(r).messages[Len(Result(r).messages) - 1].content

\* the acknowledgment the accepted turn of r appended
AckOf(r) == Last(Result(r).messages).content

\* the acknowledgment of success for the output res
success_ack(res) == [res EXCEPT !.tag = "Action completed: " \o @]

\* C33 (as claimed): on an accepted confirmation, when the operation failed
\* (its output is one of the failure texts of the data service or of the
\* executor), the acknowledgment appended is not the acknowledgment of
\* success.
C33_FailedOperationGetsErrorAck ==
  \A r \in Reqs :
    (Accepted(r) /\ OutputOf(r).tag \in FailureTags \cup DataFailureTags) =>
      AckOf(r) # success_ack(OutputOf(r))

(***************************************************************************)
(* C34: what the warning turn stores                                       *)
(***************************************************************************)
\* the first invocation the model proposed in the turn of r is risky in the
\* data store the turn found
FirstIsRisky(r) ==
  /\ Proposed(r) # << >>
  /\ Risky(req[r].db_before[1], Proposed(r)[1])

\* category and impact of the risky invocation c in the data store d
CategoryOf(c) ==
  CASE c.name = "remove_vehicle_from_trip" -> "vehicle_removal"
    [] c.name = "delete_daily_trip" -> "trip_deletion"
    [] c.name = "deactivate_route" -> "route_deactivation"

ImpactOf(d, c) ==
  IF c.name = "deactivate_route"
    THEN Cardinality({ t \in DOMAIN d.trips : d.trips[t].route = c.arg })
    ELSE d.trips[c.arg].pct

\* C34: when the first proposed invocation is risky, the turn ends with
\* confirmation_pending true, the stored invocation is the first proposed
\* one with its name, argument and id, the consequence info has the category
\* of the action, the name of the subject and the impact in the data store;
\* after the message of the model the transcript has the pause message with
\* the id of the invocation and the warning of that category, subject and
\* impact, and nothing more; the turn passed the confirmation gate, no tool
\* was invoked, the one call on the data service is the query, and the data
\* store is as it was.
C34_WarningTurnStoresFirstInvocation ==
  \A r \in Reqs :
    FirstIsRisky(r) =>
      LET X == Proposed(r)[1]
          impact == ImpactOf(req[r].db_before[1], X)
          n == Len(Result(r).messages)
      IN  /\ Result(r).confirmation_pending
          /\ Result(r).action_to_confirm = Some(X)
          /\ Result(r).consequence_info =
               Some([type |-> CategoryOf(X), name |-> X.arg, impact |-> impact])
          /\ n = Len(Entered(r).messages)
                   + (IF Entered(r).image_data # NoImage THEN 1 ELSE 0) + 3
          /\ Result(r).messages[n - 2].role = "ai"
          /\ Result(r).messages[n - 2].tool_calls = Proposed(r)
          /\ Result(r).messages[n - 1] =
               ToolMessage(Content("Action paused pending confirmation. No changes made yet.", "", 0), X.id)
          /\ Result(r).messages[n].role = "ai"
          /\ Result(r).messages[n].tool_calls = << >>
          /\ statements(Result(r).messages[n].content.tag).category = CategoryOf(X)
          /\ Result(r).messages[n].content.subject = X.arg
          /\ Result(r).messages[n].content.num = impact
          /\ req[r].nodes = << "call_model", "check_consequences", "handle_confirmation" >>
          /\ ToolCallsOf(r) = << >>
          /\ Len(req[r].calls) = 1
          /\ req[r].calls[1].kind = "query"
          /\ req[r].calls[1].arg = X.arg
          /\ req[r].db_after = req[r].db_before

\* a vehicle removal was paused on one page and a route deactivation on the
\* other
C34_Witness ==
  /\ \E r \in Reqs : FirstIsRisky(r) /\ Proposed(r)[1].name = "remove_vehicle_from_trip"
  /\ \E r \in Reqs :
       /\ FirstIsRisky(r) /\ Proposed(r)[1].name = "deactivate_route"
       /\ Result(r).consequence_info[1].impact = 1

(***************************************************************************)
(* C35: a pending invocation is executed at most once                      *)
(***************************************************************************)
\* the turn of a resolved a pending confirmation by an acceptance or a
\* rejection
Resolved(a) ==
  /\ Classified(a)
  /\ Reply(a) \in AcceptWords \cup RejectWords

\* no message of msgs is the pause message of a warning
NoPause(msgs) ==
  \A i \in 1..Len(msgs) :
    msgs[i].content.tag # "Action paused pending confirmation. No changes made yet."

\* the finished turn of b is a later turn on the session of the turn of a,
\* with no new warning in between
LaterWithoutWarning(a, b) ==
  /\ Done(a) /\ Done(b) /\ a # b
  /\ req[a].session_id = req[b].session_id
  /\ IsPrefix(Result(a).messages, Before(b).messages)
  /\ NoPause(SubSeq(Before(b).messages, Len(Result(a).messages) + 1,
                    Len(Before(b).messages)))

\* C35: once a pending invocation is accepted or rejected, a later turn on
\* the session, with no new warning in between, starts without a pending
\* confirmation and without a stored invocation and goes to the reasoning
\* service; it invokes only what the reasoning service proposes in that very
\* turn, and nothing when the first proposed invocation is risky again, so a
\* further acceptance executes nothing when the reasoning service proposes
\* nothing; and no two requests are inside the agent call at once.
C35_ExecutedAtMostOnce ==
  /\ \A a \in Reqs, b \in Reqs :
       (Resolved(a) /\ LaterWithoutWarning(a, b)) =>
         /\ ~StartPending(b)
         /\ Before(b).action_to_confirm = None
         /\ req[b].nodes[1] = "call_model"
         /\ Len(ToolCallsOf(b)) = (IF FirstIsRisky(b) THEN 0 ELSE Len(Registered(b)))
         /\ (Proposed(b) = << >> => req[b].calls = << >> /\ req[b].db_after = req[b].db_before)
  /\ \A a \in Reqs, b \in Reqs :
       (req[a].pc = "invoke" /\ req[b].pc = "invoke") => a = b

\* an accepted invocation was executed, and the acceptance that followed
\* executed nothing
C35_Witness ==
  \E a \in Reqs, b \in Reqs :
    /\ Resolved(a) /\ Reply(a) \in AcceptWords
    /\ req[a].db_after # req[a].db_before
    /\ LaterWithoutWarning(a, b)
    /\ Reply(b) \in AcceptWords
    /\ req[b].calls = << >>

(***************************************************************************)
(* C36: the stored session after a failed turn                             *)
(***************************************************************************)
\* the step ends the turn of r in the except branch of chat_endpoint
Fails(r) == req[r].pc = "invoke" /\ req'[r].pc = "error"

\* C36 (as claimed): when a turn fails with an exception, the session stored
\* under its key after the turn has the transcript, the page, the attachment
\* and the confirmation fields the turn found.
C36_FailedTurnLeavesSessionAsFound ==
  [][\A r \in Reqs :
       Fails(r) =>
         /\ req[r].session_id \in DOMAIN session_states'
         /\ AgentState(session_states'[req[r].session_id]) = Before(r)]_vars

(***************************************************************************)
(* C37: a pending confirmation and the sweep                               *)
(***************************************************************************)
\* the turn of w left a confirmation pending, and the later turn of r on the
\* same key found no session: the session was swept in between
SweptSince(w, r) ==
  /\ RiskDetected(w)
  /\ w < r
  /\ req[r].session_id = req[w].session_id
  /\ Opened(r)
  /\ req[r].before = None

\* C37: a turn whose session is expired when the turn starts finds no
\* session; and a turn on a key whose session was swept after a warning
\* works on the default state with its own message only, goes to the
\* reasoning service and not straight to the confirmation gate, and, when its
\* reply is an acceptance, for which the reasoning service proposes nothing,
\* calls nothing on the data service, leaves the data store as it is and
\* ends without a pending confirmation: the invocation that was pending is
\* not executed.
C37_PendingDoesNotOutliveSession ==
  /\ \A r \in Reqs : (Opened(r) /\ req[r].expired) => req[r].before = None
  /\ \A w \in Reqs, r \in Reqs :
       SweptSince(w, r) =>
         /\ Entered(r).messages = << HumanMessage(req[r].text) >>
         /\ ~Entered(r).confirmation_pending
         /\ Entered(r).action_to_confirm = None
         /\ Entered(r).consequence_info = None
         /\ (Done(r) =>
               /\ req[r].nodes[1] = "call_model"
               /\ (Proposed(r) = << >> =>
                     /\ req[r].nodes = << "call_model" >>
                     /\ req[r].calls = << >>
                     /\ req[r].db_after = req[r].db_before
                     /\ ~Result(r).confirmation_pending
                     /\ Result(r).action_to_confirm = None)
               /\ (Reply(r) \in AcceptWords => Proposed(r) = << >>))

\* the session of a warning was swept because it had expired, and the next
\* turn on its key, an acceptance, was answered by the reasoning service
C37_Witness ==
  \E w \in Reqs, r \in Reqs :
    /\ SweptSince(w, r)
    /\ r = w + 1
    /\ req[r].expired
    /\ Done(r)
    /\ Reply(r) \in AcceptWords
    /\ req[r].db_after[1].deployments[BulkTrip].vehicle # Null
    /\ Proposed(w)[1].name = "remove_vehicle_from_trip"

(***************************************************************************)
(* C38: the invocations proposed along with a risky first one              *)
(***************************************************************************)
\* the model proposed several invocations in the turn of w, the first of
\* which is risky
SeveralFirstRisky(w) == FirstIsRisky(w) /\ Len(Proposed(w)) >= 2

\* the tool messages of msgs, the messages a turn added, that answer the
\* invocation with the id
AnswersTo(msgs, id) ==
  SelectSeq(msgs, LAMBDA m : m.role = "tool" /\ m.tool_call_id = id)

\* C38: when the model proposes several invocations and the first is risky,
\* the warning turn invokes no tool and stores the first invocation only;
\* and the turn that accepts, after any number of replies in neither
\* vocabulary, calls the data service for the first invocation and for no
\* other, adds no tool message for any of the others, and leaves nothing
\* stored from which they could be executed later.
C38_OthersNeverExecuted ==
  \A w \in Reqs :
    SeveralFirstRisky(w) =>
      /\ ToolCallsOf(w) = << >>
      /\ req[w].db_after = req[w].db_before
      /\ Result(w).action_to_confirm = Some(Proposed(w)[1])
      /\ \A i \in 2..Len(Proposed(w)) : AnswersTo(Added(w), Proposed(w)[i].id) = << >>
      /\ \A a \in Reqs :
           (AfterUnclearOnly(w, a) /\ Reply(a) \in AcceptWords) =>
             /\ req[a].calls =
                  << DsCall("tool", Proposed(w)[1].name, Proposed(w)[1].arg) >>
             /\ \A i \in 2..Len(Proposed(w)) :
                  /\ AnswersTo(Added(a), Proposed(w)[i].id) = << >>
                  /\ \A k \in 1..Len(req[a].calls) : req[a].calls[k].op # Proposed(w)[i].name
             /\ Result(a).action_to_confirm = None
             /\ ~Result(a).confirmation_pending

\* a deletion of a booked trip was proposed together with a status query,
\* and accepted: the trip is gone and the query was not made
C38_Witness ==
  \E w \in Reqs, a \in Reqs :
    /\ SeveralFirstRisky(w)
    /\ Proposed(w)[2].name = "get_trip_status"
    /\ AfterUnclearOnly(w, a) /\ Reply(a) \in AcceptWords
    /\ BulkTrip \notin DOMAIN req[a].db_after[1].trips

(***************************************************************************)
(* C39: deployments and their trips                                        *)
(***************************************************************************)
\* the deployment rows of the data store d but the one of the trip
OtherDeployments(d, trip_name) ==
  [t \in DOMAIN d.deployments \ { trip_name } |-> d.deployments[t]]

\* C39: after any sequence of create_daily_trip, create_deployment,
\* delete_vehicle_from_trip, delete_daily_trip and deactivate_route, with
\* commits that may fail, every deployment row belongs to a trip of the data
\* store; a delete_daily_trip that succeeds leaves neither the trip nor a
\* deployment of it, and the other trips and deployments as they were; and
\* delete_vehicle_from_trip leaves the trips, the routes, the other
\* deployments and the driver of the deployment as they were and, when it
\* succeeds, the deployment without vehicle.
C39_DeploymentsReferenceTrips ==
  /\ DOMAIN db.deployments \subseteq DOMAIN db.trips
  /\ \A trip_name \in TripNames :
       LET r == delete_daily_trip(db, trip_name) IN
       r.res.tag = "OK Deleted daily trip" =>
         /\ trip_name \notin DOMAIN r.db.trips
         /\ trip_name \notin DOMAIN r.db.deployments
         /\ r.db.trips = Without(db.trips, trip_name)
         /\ r.db.deployments = OtherDeployments(db, trip_name)
  /\ \A trip_name \in TripNames :
       LET r == delete_vehicle_from_trip(db, trip_name) IN
       /\ r.db.trips = db.trips
       /\ r.db.routes = db.routes
       /\ DOMAIN r.db.deployments = DOMAIN db.deployments
       /\ OtherDeployments(r.db, trip_name) = OtherDeployments(db, trip_name)
       /\ (trip_name \in DOMAIN db.deployments =>
             r.db.deployments[trip_name].driver = db.deployments[trip_name].driver)
       /\ (r.res.tag = "OK Removed vehicle from trip" =>
             /\ db.deployments[trip_name].vehicle # Null
             /\ r.db.deployments[trip_name].vehicle = Null)

\* a seeded trip with a deployment was deleted, a trip was created and got a
\* vehicle and a driver, and a trip that had got both lost its vehicle
C39_Witness ==
  /\ BulkTrip \notin DOMAIN db.trips
  /\ EveningTrip \in DOMAIN db.deployments
  /\ db.deployments[EveningTrip].vehicle # Null
  /\ PathPathTrip \in DOMAIN db.deployments
  /\ db.deployments[PathPathTrip].driver # Null
  /\ db.deployments[PathPathTrip].vehicle = Null

====
